---------------------------- MODULE Spec2Model ----------------------------
(***************************************************************************)
(* Model of the hospital price-list indexing and cross-hospital matching   *)
(* code: HospitalDataset and build_hospital_dataset                        *)
(* (hospital_dataset_builder.py), normalize_ndc and                        *)
(* find_cross_hospital_matches (app.py), HashMatcher (hash_matcher.py),     *)
(* ImprovedMatcher (improved_matcher.py) and FastMatcher (fast_matcher.py). *)
(*                                                                         *)
(* A Python str is a sequence of one-character strings.  Python dicts      *)
(* whose iteration order the code never relies on are functions; dicts     *)
(* that are iterated are sequences of entries in insertion order.          *)
(***************************************************************************)
EXTENDS Integers, Sequences, FiniteSets, TLC

VARIABLES
    hospital_datasets,  \* app.py / builder: hospital key -> HospitalDataset
    raw_pos,            \* build_hospital_dataset: hospital key -> enumerate() position i
    matcher,            \* the HashMatcher, ImprovedMatcher or FastMatcher of the run
    program,            \* the script that runs
    ret                 \* the last call: [op, h, args, result]

vars == <<hospital_datasets, raw_pos, matcher, program, ret>>

-----------------------------------------------------------------------------
(* Bounds of the model *)

\* number of raw items read, over all hospitals, by the build_hospital_dataset
\* (resp. load_hospital_data) loops
MaxRaw == 2
\* largest number of digits of a generated NDC input
MaxDigits == 12
\* largest number of separators put into a generated NDC input
MaxSeps == 2
\* number of records callers of add_item store, over all hospitals, in the
\* datasets app.py loads
MaxPriced == 3
\* largest number of code_information entries of a record handed to the code
\* overlap test of ImprovedMatcher on its own
MaxCodes == 2
\* number of raw items, over all files, of the files read whole by
\* build_hospital_dataset and by HashMatcher.load_hospital_data
MaxFileItems == 3

\* the longest description handed to the similarity tests on their own
MaxDescLen == 3

-----------------------------------------------------------------------------
(* Python str primitives *)

\* the printable ASCII characters, in code point order starting at 32 (the grave
\* accent, which no input of the model holds, stands as a placeholder)
Ascii ==
    << " ", "!", "\"", "#", "$", "%", "&", "'", "(", ")", "*", "+", ",", "-", ".", "/",
       "0", "1", "2", "3", "4", "5", "6", "7", "8", "9", ":", ";", "<", "=", ">", "?",
       "@", "A", "B", "C", "D", "E", "F", "G", "H", "I", "J", "K", "L", "M", "N", "O",
       "P", "Q", "R", "S", "T", "U", "V", "W", "X", "Y", "Z", "[", "\\", "]", "^", "_",
       "<grave>", "a", "b", "c", "d", "e", "f", "g", "h", "i", "j", "k", "l", "m", "n", "o",
       "p", "q", "r", "s", "t", "u", "v", "w", "x", "y", "z", "{", "|", "}", "~" >>

\* ord(c) - 31
OrdMap == [c \in {Ascii[i] : i \in 1..Len(Ascii)} |-> CHOOSE i \in 1..Len(Ascii) : Ascii[i] = c]
Ord(c) == OrdMap[c]

Digits == {Ascii[i] : i \in OrdMap["0"]..OrdMap["9"]}
UpperCase == {Ascii[i] : i \in OrdMap["A"]..OrdMap["Z"]}
LowerCase == {Ascii[i] : i \in OrdMap["a"]..OrdMap["z"]}

IsDigit(c) == c \in Digits
IsUpper(c) == c \in UpperCase
IsLower(c) == c \in LowerCase
\* regex \w
IsWordChar(c) == IsDigit(c) \/ IsUpper(c) \/ IsLower(c) \/ c = "_"
\* str.isspace for the one whitespace character of the model
IsSpace(c) == c = " "

LowerChar(c) == IF IsUpper(c) THEN Ascii[Ord(c) + (Ord("a") - Ord("A"))] ELSE c
UpperChar(c) == IF IsLower(c) THEN Ascii[Ord(c) - (Ord("a") - Ord("A"))] ELSE c

\* str.lower(), str.upper()
Lower(s) == [i \in 1..Len(s) |-> LowerChar(s[i])]
Upper(s) == [i \in 1..Len(s) |-> UpperChar(s[i])]

\* str.strip()
RECURSIVE LStrip(_)
LStrip(s) == IF s # <<>> /\ IsSpace(Head(s)) THEN LStrip(Tail(s)) ELSE s
RECURSIVE RStrip(_)
RStrip(s) ==
    IF s # <<>> /\ IsSpace(s[Len(s)]) THEN RStrip(SubSeq(s, 1, Len(s) - 1)) ELSE s
Strip(s) == RStrip(LStrip(s))

\* the maximal runs of characters satisfying Keep, left to right
RECURSIVE Runs(_, _, _, _)
Runs(Keep(_), s, cur, acc) ==
    IF s = <<>> THEN (IF cur = <<>> THEN acc ELSE Append(acc, cur))
    ELSE IF Keep(Head(s)) THEN Runs(Keep, Tail(s), Append(cur, Head(s)), acc)
    ELSE Runs(Keep, Tail(s), <<>>, IF cur = <<>> THEN acc ELSE Append(acc, cur))

\* re.findall(r'\w+', s)
FindAllWords(s) == Runs(IsWordChar, s, <<>>, <<>>)

NotSpace(c) == ~IsSpace(c)
\* str.split()
Split(s) == Runs(NotSpace, s, <<>>, <<>>)

\* s1 < s2 on Python str: lexicographic by code point
RECURSIVE StrLess(_, _)
StrLess(a, b) ==
    IF b = <<>> THEN FALSE
    ELSE IF a = <<>> THEN TRUE
    ELSE IF Head(a) # Head(b) THEN Ord(Head(a)) < Ord(Head(b))
    ELSE StrLess(Tail(a), Tail(b))

\* sorted(list(S)) for a set S of str
RECURSIVE Sorted(_)
Sorted(S) ==
    IF S = {} THEN <<>>
    ELSE LET m == CHOOSE x \in S : \A y \in S \ {x} : StrLess(x, y)
         IN  <<m>> \o Sorted(S \ {m})

\* s.startswith(p)
StartsWith(s, p) == Len(s) >= Len(p) /\ SubSeq(s, 1, Len(p)) = p

\* ch in s
Contains(s, ch) == \E i \in 1..Len(s) : s[i] = ch

\* s.split(':', 1)[1] for s containing ch
AfterFirst(s, ch) ==
    LET i == CHOOSE k \in 1..Len(s) : s[k] = ch /\ \A j \in 1..(k - 1) : s[j] # ch
    IN  SubSeq(s, i + 1, Len(s))

\* Python None, distinct from every str
None == << "<None>" >>

Range(f) == {f[x] : x \in DOMAIN f}

\* the list orders in which a Python set can be iterated
Orderings(S) ==
    {q \in [1..Cardinality(S) -> S] : \A i, j \in 1..Cardinality(S) : q[i] = q[j] => i = j}

\* an empty dict
EmptyDict == [k \in {} |-> {}]

\* d.get(k, default)
Get(d, k, default) == IF k \in DOMAIN d THEN d[k] ELSE default

\* code types named by the code
NDC == <<"N", "D", "C">>
CPT == <<"C", "P", "T">>
CDM == <<"C", "D", "M">>
HCPCS == <<"H", "C", "P", "C", "S">>

-----------------------------------------------------------------------------
(* HospitalDataset *)

\* HospitalDataset.__init__
NewDataset(hospital_name) ==
    [ hospital_name |-> hospital_name,
      items |-> <<>>,
      code_to_indices |-> EmptyDict,
      description_to_indices |-> EmptyDict,
      code_type_stats |-> EmptyDict,
      word_index |-> EmptyDict ]

\* defaultdict(list): d[k].append(x)
ListAppend(d, k, x) ==
    IF k \in DOMAIN d THEN [d EXCEPT ![k] = Append(@, x)] ELSE d @@ (k :> <<x>>)

\* defaultdict(set): d[k].add(x)
SetAdd(d, k, x) ==
    IF k \in DOMAIN d THEN [d EXCEPT ![k] = @ \cup {x}] ELSE d @@ (k :> {x})

\* Counter: c[k] += 1
CounterInc(c, k) ==
    IF k \in DOMAIN c THEN [c EXCEPT ![k] = @ + 1] ELSE c @@ (k :> 1)

\* f"{code_type}:{code_value}"
CodeKey(code_type, code_value) == code_type \o <<":">> \o code_value

\* faulty variant: the position is taken after the append
ItemIndex_AfterAppend(items) == Len(items) + 1

\* add_item, the position the new item gets
ItemIndex(items) == Len(items)

\* faulty variant: the code is indexed under its typed key only
IndexCode_TypedOnly(code_to_indices, code_info, item_index) ==
    ListAppend(code_to_indices, CodeKey(code_info.type, code_info.code), item_index)

\* add_item, the body of the loop over item_data['codes'] on code_to_indices
IndexCode(code_to_indices, code_info, item_index) ==
    ListAppend(
        ListAppend(code_to_indices, CodeKey(code_info.type, code_info.code), item_index),
        code_info.code, item_index)

\* faulty variant: a type is counted once, however many entries carry it
CountCodeType_Once(code_type_stats, code_info) ==
    IF code_info.type \in DOMAIN code_type_stats THEN code_type_stats
    ELSE code_type_stats @@ (code_info.type :> 1)

\* add_item, the body of the loop over item_data['codes'] on code_type_stats
CountCodeType(code_type_stats, code_info) == CounterInc(code_type_stats, code_info.type)

RECURSIVE IndexCodes(_, _, _)
IndexCodes(ds, codes, item_index) ==
    IF codes = <<>> THEN ds
    ELSE IndexCodes(
            [ds EXCEPT !.code_to_indices = IndexCode(@, Head(codes), item_index),
                       !.code_type_stats = CountCodeType(@, Head(codes))],
            Tail(codes), item_index)

\* add_item: only words of 3+ characters are indexed
WordIndexed(word) == Len(word) >= 3

RECURSIVE IndexWords(_, _, _)
IndexWords(word_index, words, item_index) ==
    IF words = <<>> THEN word_index
    ELSE IndexWords(
            IF WordIndexed(Head(words))
               THEN SetAdd(word_index, Head(words), item_index) ELSE word_index,
            Tail(words), item_index)

\* add_item, the description part
IndexDescription(ds, item_data, item_index) ==
    LET description == Strip(item_data.description)
    IN  IF description # <<>>
        THEN [ds EXCEPT
                !.description_to_indices = ListAppend(@, Lower(description), item_index),
                !.word_index = IndexWords(@, FindAllWords(Lower(description)), item_index)]
        ELSE ds

\* HospitalDataset.add_item
add_item(ds, item_data) ==
    LET item_index == ItemIndex(ds.items)
        ds1 == [ds EXCEPT !.items = Append(@, item_data)]
        ds2 == IndexCodes(ds1, item_data.codes, item_index)
    IN  IndexDescription(ds2, item_data, item_index)

\* find_by_code; a missing code_type (None) and '' both take the else branch
find_by_code(ds, code_value, code_type) ==
    LET indices ==
            IF code_type # None /\ code_type # <<>>
            THEN Get(ds.code_to_indices, CodeKey(code_type, code_value), <<>>)
            ELSE Get(ds.code_to_indices, code_value, <<>>)
    IN  [k \in 1..Len(indices) |-> ds.items[indices[k] + 1]]

\* find_by_description
find_by_description(ds, description) ==
    LET indices == Get(ds.description_to_indices, Lower(description), <<>>)
    IN  [k \in 1..Len(indices) |-> ds.items[indices[k] + 1]]

\* search_by_keywords: a str argument is split on whitespace, a list is taken as is
KeywordList(keywords) ==
    IF keywords.kind = "str" THEN Split(keywords.val) ELSE keywords.val

\* faulty variant: every keyword is looked up
KeywordUsed_Always(keyword) == TRUE

\* search_by_keywords: a keyword shorter than 3 characters is passed over
KeywordUsed(keyword) == Len(keyword) >= 3

\* faulty variant: the first posting set is taken without .copy()
FirstPosting_NoCopy(word_index, keyword) ==
    [none |-> FALSE, set |-> Get(word_index, keyword, {}),
     alias |-> IF keyword \in DOMAIN word_index THEN keyword ELSE None]

\* search_by_keywords: the first posting set is copied, so matching_indices aliases
\* no set of word_index
FirstPosting(word_index, keyword) ==
    [none |-> FALSE, set |-> Get(word_index, keyword, {}), alias |-> None]

\* matching_indices = None
NoMatching == [none |-> TRUE, set |-> {}, alias |-> None]

\* search_by_keywords, the loop over the keywords.  m is matching_indices:
\* whether it is None, else its members and the word_index key whose set it is
\* (None when it is a set of its own); matching_indices &= ... updates the
\* aliased set
RECURSIVE KeywordLoop(_, _, _)
KeywordLoop(word_index, keywords, m) ==
    IF keywords = <<>> THEN [matching_indices |-> m, word_index |-> word_index]
    ELSE LET keyword == Strip(Lower(Head(keywords)))
         IN  IF KeywordUsed(keyword)
             THEN IF m.none
                  THEN KeywordLoop(word_index, Tail(keywords),
                                   FirstPosting(word_index, keyword))
                  ELSE LET both == m.set \cap Get(word_index, keyword, {})
                       IN  KeywordLoop(
                               IF m.alias = None THEN word_index
                               ELSE [word_index EXCEPT ![m.alias] = both],
                               Tail(keywords), [m EXCEPT !.set = both])
             ELSE KeywordLoop(word_index, Tail(keywords), m)

\* search_by_keywords: [indices, ds], the set of positions whose items are
\* returned (in the iteration order of that set) and the dataset after the call
search_by_keywords(ds, keywords) ==
    LET r == KeywordLoop(ds.word_index, KeywordList(keywords), NoMatching)
    IN  [indices |-> r.matching_indices.set,
         ds |-> [ds EXCEPT !.word_index = r.word_index]]

\* count_by_code_type
count_by_code_type(ds, code_type) == Get(ds.code_type_stats, code_type, 0)

\* get_all_codes_of_type
get_all_codes_of_type(ds, code_type) ==
    Sorted({AfterFirst(code_key, ":") :
              code_key \in {k \in DOMAIN ds.code_to_indices :
                              Contains(k, ":") /\ StartsWith(k, code_type \o <<":">>)}})

\* get_stats
get_stats(ds) ==
    [ hospital_name |-> ds.hospital_name,
      total_items |-> Len(ds.items),
      total_unique_codes |->
          Cardinality({k \in DOMAIN ds.code_to_indices : ~Contains(k, ":")}),
      code_type_counts |-> ds.code_type_stats,
      searchable_words |-> Cardinality(DOMAIN ds.word_index),
      unique_descriptions |-> Cardinality(DOMAIN ds.description_to_indices) ]

-----------------------------------------------------------------------------
(* build_hospital_dataset *)

\* the keys of HOSPITAL_FILES, in the order of the hospitals list
Hospitals == <<"stanford", "ucsf", "ucla", "cedars">>

\* HOSPITAL_NAMES
HOSPITAL_NAMES ==
    [ stanford |-> "Stanford Health Care", ucsf |-> "UCSF Medical Center",
      ucla |-> "UCLA Health", cedars |-> "Cedars-Sinai Medical Center" ]

\* s.replace(ch, '')
RECURSIVE RemoveChar(_, _)
RemoveChar(s, ch) ==
    IF s = <<>> THEN <<>>
    ELSE IF Head(s) = ch THEN RemoveChar(Tail(s), ch)
    ELSE <<Head(s)>> \o RemoveChar(Tail(s), ch)

\* the value of a string of decimal digits
RECURSIVE DigitsValue(_, _)
DigitsValue(s, acc) ==
    IF s = <<>> THEN acc
    ELSE DigitsValue(Tail(s), 10 * acc + (Ord(Head(s)) - Ord("0")))

AllDigits(s) == \A i \in 1..Len(s) : IsDigit(s[i])

\* float(s) for the charge strings of the model (whole amounts, optional sign):
\* [ok, value], ok = FALSE standing for ValueError
ParseFloat(s) ==
    LET t == Strip(s)
        signed == t # <<>> /\ Head(t) \in {"-", "+"}
        body == IF signed THEN Tail(t) ELSE t
    IN  IF body # <<>> /\ AllDigits(body)
        THEN [ok |-> TRUE,
              value |-> IF signed /\ Head(t) = "-" THEN 0 - DigitsValue(body, 0)
                        ELSE DigitsValue(body, 0)]
        ELSE [ok |-> FALSE, value |-> 0]

\* build_hospital_dataset: the codes kept from item['code_information']
RECURSIVE ExtractCodes(_)
ExtractCodes(code_information) ==
    IF code_information = <<>> THEN <<>>
    ELSE LET code_value == Strip(Head(code_information).code)
             code_type == Strip(Head(code_information).type)
         IN  (IF code_value # <<>> /\ code_type # <<>>
              THEN << [code |-> code_value, type |-> code_type] >> ELSE <<>>)
             \o ExtractCodes(Tail(code_information))

\* faulty variant: a zero charge is kept
PriceAccepted_NonNegative(price) == price >= 0

\* build_hospital_dataset: a parsed gross_charge is kept when it is positive
PriceAccepted(price) == price > 0

\* build_hospital_dataset: the prices kept from item['standard_charges']; a
\* charge without a gross_charge key is None
RECURSIVE ExtractPrices(_)
ExtractPrices(standard_charges) ==
    IF standard_charges = <<>> THEN <<>>
    ELSE LET gross_charge == Head(standard_charges)
             price == ParseFloat(RemoveChar(RemoveChar(gross_charge, "$"), ","))
         IN  (IF gross_charge # None /\ price.ok /\ PriceAccepted(price.value)
              THEN << [gross_charge |-> price.value] >> ELSE <<>>)
             \o ExtractPrices(Tail(standard_charges))

\* build_hospital_dataset: an item with a blank description is skipped
DescriptionAccepted(description) == description # <<>>

\* build_hospital_dataset, the body of the loop over the raw items: the dataset
\* after raw item number i
BuildStep(dataset, item, i) ==
    LET description == Strip(item.description)
        codes == ExtractCodes(item.code_information)
        prices == ExtractPrices(item.standard_charges)
    IN  IF ~DescriptionAccepted(description) THEN dataset
        ELSE IF codes # <<>> /\ prices # <<>>
        THEN add_item(dataset, [index |-> i, description |-> description,
                                codes |-> codes, prices |-> prices])
        ELSE dataset

\* JSON null (None) in the place of a list of dicts
NullList == << [null |-> TRUE] >>

\* build_hospital_dataset: the loop body raises on the raw item, with no handler
\* around it: None (JSON null) has no strip() (line 162) and cannot be
\* iterated (line 170)
BuildRaises(item) ==
    \/ item.description = None
    \/ /\ DescriptionAccepted(Strip(item.description))
       /\ item.code_information = NullList

\* build_hospital_dataset, the loop over the raw items from item number i + 1
\* on: [raised, dataset]
RECURSIVE BuildItems(_, _, _)
BuildItems(dataset, items, i) ==
    IF i >= Len(items) THEN [raised |-> FALSE, dataset |-> dataset]
    ELSE IF BuildRaises(items[i + 1]) THEN [raised |-> TRUE, dataset |-> None]
    ELSE BuildItems(BuildStep(dataset, items[i + 1], i), items, i + 1)

\* build_hospital_dataset(hospital_key) on a file that exists and holds items
\* under 'standard_charge_information': [raised, dataset], raised standing for
\* the exception that leaves the function instead of the dataset
build_hospital_dataset(hospital_key, items) ==
    BuildItems(NewDataset(HOSPITAL_NAMES[hospital_key]), items, 0)

-----------------------------------------------------------------------------
(* app.py: normalize_ndc and find_cross_hospital_matches *)

\* the characters of s that satisfy Keep, in order
RECURSIVE KeepChars(_, _)
KeepChars(Keep(_), s) ==
    IF s = <<>> THEN <<>>
    ELSE (IF Keep(Head(s)) THEN <<Head(s)>> ELSE <<>>) \o KeepChars(Keep, Tail(s))

\* faulty variant: only the dashes are removed
DigitsOnly_DashesOnly(s) == RemoveChar(s, "-")

\* re.sub(r'\D', '', s)
DigitsOnly(s) == KeepChars(IsDigit, s)

\* str.zfill(width)
Zfill(s, width) ==
    LET zeros == [i \in 1..(width - Len(s)) |-> "0"]
    IN  IF Len(s) >= width THEN s
        ELSE IF Head(s) \in {"+", "-"} THEN <<Head(s)>> \o zeros \o Tail(s)
        ELSE zeros \o s

\* faulty variant: only the 10 and 11 digit forms are accepted
NdcLengthValid_TenUp(n) == n >= 10 /\ n <= 11

\* normalize_ndc: the digit counts taken as an NDC
NdcLengthValid(n) == n >= 9 /\ n <= 11

\* normalize_ndc
normalize_ndc(ndc_code) ==
    LET digits_only == DigitsOnly(ndc_code)
    IN  IF NdcLengthValid(Len(digits_only)) THEN Zfill(digits_only, 11) ELSE None

\* float('inf'), larger than every price of the model
INF == 1000000000

\* re.match(r'^[A-Z0-9\-]+$', search_term.upper())
LooksLikeCode(search_term) ==
    /\ search_term # <<>>
    /\ \A i \in 1..Len(search_term) :
          LET c == UpperChar(search_term[i])
          IN  IsUpper(c) \/ IsDigit(c) \/ c = "-"

\* the code types tried for a search term that looks like a code
SearchCodeTypes == <<NDC, HCPCS, CPT, CDM>>

\* find_cross_hospital_matches: the find_by_code results over the code types
RECURSIVE CodeResults(_, _, _)
CodeResults(dataset, code_value, types) ==
    IF types = <<>> THEN <<>>
    ELSE find_by_code(dataset, code_value, Head(types))
         \o CodeResults(dataset, code_value, Tail(types))

\* find_cross_hospital_matches: the items whose 'index' was not seen before
RECURSIVE UniqueResults(_, _)
UniqueResults(results, seen_indices) ==
    IF results = <<>> THEN <<>>
    ELSE IF Head(results).index \in seen_indices
         THEN UniqueResults(Tail(results), seen_indices)
         ELSE <<Head(results)>>
              \o UniqueResults(Tail(results), seen_indices \cup {Head(results).index})

\* s[:n]
Take(s, n) == SubSeq(s, 1, IF n < Len(s) THEN n ELSE Len(s))

\* find_cross_hospital_matches, step 1 for one hospital; keyword_results is the
\* list search_by_keywords returned
HospitalResults(dataset, search_term, keyword_results, max_results) ==
    LET results ==
            keyword_results
            \o (IF LooksLikeCode(search_term)
                THEN CodeResults(dataset, Upper(search_term), SearchCodeTypes)
                ELSE <<>>)
    IN  Take(UniqueResults(results, {}), max_results)

\* the default value of code_groups, under a given key
NewGroup(match_key) ==
    [ match_key |-> match_key, hospitals |-> <<>>, code |-> None, code_type |-> None,
      description_samples |-> {}, min_price |-> INF, max_price |-> 0,
      hospital_count |-> 0, price_spread |-> 0,
      price_spread_percent |-> [num |-> 0, den |-> 1] ]

\* find_cross_hospital_matches: the key a code is grouped under, None when the
\* code is skipped
MatchKey(code_info) ==
    IF code_info.type = NDC
    THEN LET match_key == normalize_ndc(code_info.code)
         IN  IF match_key = None \/ match_key = <<>> THEN None
             ELSE NDC \o <<":">> \o match_key
    ELSE CodeKey(code_info.type, code_info.code)

\* faulty variant: the least amount, positive or not
BestPrice_LeastAmount(item) ==
    LET amounts == {item.prices[k].gross_charge : k \in 1..Len(item.prices)}
    IN  IF item.prices = <<>> THEN [raised |-> FALSE, value |-> 0]
        ELSE [raised |-> FALSE,
              value |-> CHOOSE x \in amounts : \A y \in amounts : x <= y]

\* min(p['gross_charge'] for p in item['prices'] if p['gross_charge'] > 0)
\* if item['prices'] else 0; min() of nothing raises ValueError
BestPrice(item) ==
    LET positive == {x \in {item.prices[k].gross_charge : k \in 1..Len(item.prices)} :
                        x > 0}
    IN  IF item.prices = <<>> THEN [raised |-> FALSE, value |-> 0]
        ELSE IF positive = {} THEN [raised |-> TRUE, value |-> 0]
        ELSE [raised |-> FALSE,
              value |-> CHOOSE x \in positive : \A y \in positive : x <= y]

Min(a, b) == IF a < b THEN a ELSE b
Max(a, b) == IF a > b THEN a ELSE b

\* group['hospitals'][hospital_key].append(entry), hospitals in insertion order
AddToHospital(hospitals, hospital_key, entry) ==
    IF \E k \in 1..Len(hospitals) : hospitals[k].hospital_key = hospital_key
    THEN [k \in 1..Len(hospitals) |->
            IF hospitals[k].hospital_key = hospital_key
            THEN [hospitals[k] EXCEPT !.items = Append(@, entry)]
            ELSE hospitals[k]]
    ELSE Append(hospitals, [hospital_key |-> hospital_key, items |-> <<entry>>])

\* find_cross_hospital_matches, step 2, the body of the innermost loop
AddToGroup(group, hospital_key, item, code_info, best_price) ==
    [group EXCEPT
        !.code = code_info.code,
        !.code_type = code_info.type,
        !.description_samples = @ \cup {Take(item.description, 100)},
        !.min_price = IF best_price > 0 THEN Min(@, best_price) ELSE @,
        !.max_price = IF best_price > 0 THEN Max(@, best_price) ELSE @,
        !.hospitals = AddToHospital(@, hospital_key,
                          [item |-> item, original_code |-> code_info.code,
                           price |-> best_price, price_details |-> item.prices])]

\* find_cross_hospital_matches, step 2 over the codes of one item;
\* g is [code_groups, raised]
RECURSIVE GroupCodes(_, _, _, _)
GroupCodes(g, hospital_key, item, codes) ==
    IF codes = <<>> \/ g.raised THEN g
    ELSE LET code_info == Head(codes)
             match_key == MatchKey(code_info)
             best_price == BestPrice(item)
             known == \E k \in 1..Len(g.code_groups) :
                          g.code_groups[k].match_key = match_key
             groups == IF known THEN g.code_groups
                       ELSE Append(g.code_groups, NewGroup(match_key))
         IN  IF match_key = None
             THEN GroupCodes(g, hospital_key, item, Tail(codes))
             ELSE IF best_price.raised
             THEN [code_groups |-> groups, raised |-> TRUE]
             ELSE GroupCodes(
                      [code_groups |->
                          [k \in 1..Len(groups) |->
                              IF groups[k].match_key = match_key
                              THEN AddToGroup(groups[k], hospital_key, item, code_info,
                                              best_price.value)
                              ELSE groups[k]],
                       raised |-> FALSE],
                      hospital_key, item, Tail(codes))

\* step 2 over the items of one hospital
RECURSIVE GroupItems(_, _, _)
GroupItems(g, hospital_key, items) ==
    IF items = <<>> \/ g.raised THEN g
    ELSE GroupItems(GroupCodes(g, hospital_key, Head(items), Head(items).codes),
                    hospital_key, Tail(items))

\* step 2 over hospital_results, a list of [hospital_key, items]
RECURSIVE GroupHospitals(_, _)
GroupHospitals(g, hospital_results) ==
    IF hospital_results = <<>> \/ g.raised THEN g
    ELSE GroupHospitals(
            GroupItems(g, Head(hospital_results).hospital_key,
                       Head(hospital_results).items),
            Tail(hospital_results))

\* faulty variant: a group of a single hospital is kept
GroupKept_Any(hospital_count) == hospital_count >= 1

\* find_cross_hospital_matches, step 3: only groups of several hospitals are kept
GroupKept(hospital_count) == hospital_count >= 2

\* faulty variant: a min_price left at float('inf') is not reset to 0
FinishGroup_KeepInf(group) ==
    LET min_price == group.min_price
        priced == group.max_price > 0 /\ min_price > 0
        price_spread == IF priced THEN group.max_price - min_price ELSE 0
    IN  [group EXCEPT
            !.hospital_count = Len(group.hospitals),
            !.min_price = min_price,
            !.price_spread = price_spread,
            !.price_spread_percent =
                IF priced THEN [num |-> price_spread * 100, den |-> min_price]
                ELSE [num |-> 0, den |-> 1]]

\* step 3, the body of the loop for a group that is kept
FinishGroup(group) ==
    LET min_price == IF group.min_price = INF THEN 0 ELSE group.min_price
        priced == group.max_price > 0 /\ min_price > 0
        price_spread == IF priced THEN group.max_price - min_price ELSE 0
    IN  [group EXCEPT
            !.hospital_count = Len(group.hospitals),
            !.min_price = min_price,
            !.price_spread = price_spread,
            !.price_spread_percent =
                IF priced THEN [num |-> price_spread * 100, den |-> min_price]
                ELSE [num |-> 0, den |-> 1]]

\* step 3: filtered_groups, in the order of code_groups
RECURSIVE FilteredGroups(_)
FilteredGroups(code_groups) ==
    IF code_groups = <<>> THEN <<>>
    ELSE (IF GroupKept(Len(Head(code_groups).hospitals))
          THEN <<FinishGroup(Head(code_groups))>> ELSE <<>>)
         \o FilteredGroups(Tail(code_groups))

\* (hospital_count, price_spread) of a < that of b
SortKeyLess(a, b) ==
    \/ a.hospital_count < b.hospital_count
    \/ a.hospital_count = b.hospital_count /\ a.price_spread < b.price_spread

\* sorted(..., key=(hospital_count, price_spread), reverse=True): descending,
\* groups of equal key in their original order
RECURSIVE SortedGroups(_, _)
SortedGroups(groups, acc) ==
    IF groups = <<>> THEN acc
    ELSE LET g == Head(groups)
             before == {k \in 1..Len(acc) : SortKeyLess(acc[k], g)}
             pos == IF before = {} THEN Len(acc) + 1
                    ELSE CHOOSE k \in before : \A j \in before : k <= j
         IN  SortedGroups(Tail(groups),
                          SubSeq(acc, 1, pos - 1) \o <<g>> \o SubSeq(acc, pos, Len(acc)))

\* find_cross_hospital_matches, steps 2 and 3, given the hospital_results of
\* step 1: [raised, groups]; description_samples is still a set
CrossHospitalGroups(hospital_results, max_results) ==
    LET g == GroupHospitals([code_groups |-> <<>>, raised |-> FALSE], hospital_results)
    IN  IF g.raised THEN [raised |-> TRUE, groups |-> <<>>]
        ELSE [raised |-> FALSE,
              groups |-> Take(SortedGroups(FilteredGroups(g.code_groups), <<>>),
                              max_results)]

\* lambda x: x['price'] if x['price'] > 0 else float('inf')
PriceKey(x) == IF x.price > 0 THEN x.price ELSE INF

\* min(items, key=PriceKey): the first of the items of least key
BestItem(items) ==
    LET k == CHOOSE i \in 1..Len(items) :
                /\ \A j \in 1..Len(items) : PriceKey(items[i]) <= PriceKey(items[j])
                /\ \A j \in 1..(i - 1) : PriceKey(items[j]) > PriceKey(items[i])
    IN  items[k]

\* hospital_prices.sort(key=PriceKey): ascending, entries of equal key in their
\* original order
RECURSIVE SortedByPrice(_, _)
SortedByPrice(entries, acc) ==
    IF entries = <<>> THEN acc
    ELSE LET x == Head(entries)
             after == {k \in 1..Len(acc) : PriceKey(acc[k]) > PriceKey(x)}
             pos == IF after = {} THEN Len(acc) + 1
                    ELSE CHOOSE k \in after : \A j \in after : k <= j
         IN  SortedByPrice(Tail(entries),
                           SubSeq(acc, 1, pos - 1) \o <<x>> \o SubSeq(acc, pos, Len(acc)))

\* get_procedures: the pricing summary of one match
HospitalPrices(match) ==
    SortedByPrice(
        [k \in 1..Len(match.hospitals) |->
            [hospital |-> HOSPITAL_NAMES[match.hospitals[k].hospital_key],
             hospital_key |-> match.hospitals[k].hospital_key,
             price |-> BestItem(match.hospitals[k].items).price,
             item_count |-> Len(match.hospitals[k].items)]],
        <<>>)

\* get_procedures, line 223: the representative description of a match
RepresentativeDescription(match) ==
    IF match.description_samples # <<>> THEN match.description_samples[1]
    ELSE <<"N", "o", " ", "d", "e", "s", "c", "r", "i", "p", "t", "i", "o", "n">>

\* get_procedures: the results formatted from the matches; r is what
\* find_cross_hospital_matches gave, [raised, groups]
ProcedureResults(r) ==
    IF r.raised THEN [source |-> "datasets", raised |-> TRUE, results |-> <<>>]
    ELSE [source |-> "datasets", raised |-> FALSE,
          results |->
             [i \in 1..Len(r.groups) |->
                LET match == r.groups[i]
                    description == RepresentativeDescription(match)
                IN  [id |-> i - 1, name |-> description, code |-> match.code,
                     code_type |-> match.code_type, description |-> description,
                     hospital_count |-> match.hospital_count,
                     price_range |-> [min |-> match.min_price, max |-> match.max_price,
                                      spread |-> match.price_spread,
                                      spread_percent |-> match.price_spread_percent],
                     hospitals |-> HospitalPrices(match),
                     match_key |-> CodeKey(match.code_type, match.code)]]]

\* sep.join(list)
RECURSIVE Join(_, _)
Join(sep, list) ==
    IF list = <<>> THEN <<>>
    ELSE IF Len(list) = 1 THEN list[1]
    ELSE list[1] \o sep \o Join(sep, Tail(list))

\* get_pricing_for_match: min(price of the items if price > 0) if items else 0;
\* min() of nothing raises ValueError
HospitalBestPrice(items) ==
    LET positive == {x \in {items[k].price : k \in 1..Len(items)} : x > 0}
    IN  IF items = <<>> THEN [raised |-> FALSE, value |-> 0]
        ELSE IF positive = {} THEN [raised |-> TRUE, value |-> 0]
        ELSE [raised |-> FALSE,
              value |-> CHOOSE x \in positive : \A y \in positive : x <= y]

\* get_pricing_for_match: the detailed pricing of one hospital of the match
HospitalPricing(entry) ==
    [hospital |-> [name |-> HOSPITAL_NAMES[entry.hospital_key], key |-> entry.hospital_key],
     pricing |-> [best_price |-> HospitalBestPrice(entry.items).value,
                  item_count |-> Len(entry.items),
                  all_items |-> [k \in 1..Len(entry.items) |->
                                   [description |-> entry.items[k].item.description,
                                    prices |-> entry.items[k].price_details,
                                    codes |-> entry.items[k].item.codes]]]]

\* lambda x: best_price if best_price > 0 else float('inf')
BestPriceKey(x) == IF x.pricing.best_price > 0 THEN x.pricing.best_price ELSE INF

\* result['pricing_by_hospital'].sort(key=BestPriceKey): ascending, entries of
\* equal key in their original order
RECURSIVE SortedByBestPrice(_, _)
SortedByBestPrice(entries, acc) ==
    IF entries = <<>> THEN acc
    ELSE LET x == Head(entries)
             after == {k \in 1..Len(acc) : BestPriceKey(acc[k]) > BestPriceKey(x)}
             pos == IF after = {} THEN Len(acc) + 1
                    ELSE CHOOSE k \in after : \A j \in after : k <= j
         IN  SortedByBestPrice(Tail(entries),
                               SubSeq(acc, 1, pos - 1) \o <<x>> \o SubSeq(acc, pos, Len(acc)))

\* get_pricing_for_match for an id 'match_...' and a search: the response built
\* from what find_cross_hospital_matches(search, 100) gave; an exception that
\* leaves the handler is the response 500
PricingResponse(r, code, code_type) ==
    LET found == {k \in 1..Len(r.groups) :
                     CodeKey(r.groups[k].code_type, r.groups[k].code)
                        = CodeKey(code_type, code)}
        target_match == r.groups[CHOOSE k \in found : \A j \in found : k <= j]
    IN  IF r.raised THEN [status |-> 500, raised |-> TRUE]
        ELSE IF found = {} THEN [status |-> 404, raised |-> FALSE]
        ELSE IF \E k \in 1..Len(target_match.hospitals) :
                    HospitalBestPrice(target_match.hospitals[k].items).raised
        THEN [status |-> 500, raised |-> TRUE]
        ELSE [status |-> 200, raised |-> FALSE,
              procedure |->
                 [name |-> IF target_match.description_samples # <<>>
                           THEN target_match.description_samples[1] ELSE <<"U", "n", "k", "n", "o", "w", "n">>,
                  code |-> target_match.code, code_type |-> target_match.code_type,
                  description |-> Join(<<" ", "|", " ">>, Take(target_match.description_samples, 3))],
              pricing_by_hospital |->
                 SortedByBestPrice(
                    [k \in 1..Len(target_match.hospitals) |->
                       HospitalPricing(target_match.hospitals[k])], <<>>),
              hospital_count |-> target_match.hospital_count,
              price_analysis |->
                 [min_price |-> target_match.min_price,
                  max_price |-> target_match.max_price,
                  price_spread |-> target_match.price_spread,
                  potential_savings |-> target_match.price_spread,
                  savings_percent |-> target_match.price_spread_percent]]

-----------------------------------------------------------------------------
(* Inputs *)

Code(code, type) == [code |-> code, type |-> type]
Price(gross_charge) == [gross_charge |-> gross_charge]

\* item_data dicts handed to add_item directly (the caller sets 'index')
DirectItems ==
    { [description |-> <<"C", "T", " ", "S", "c", "a", "n">>, codes |-> <<Code(<<"7">>, CPT)>>,
       prices |-> <<Price(100)>>],
      [description |-> <<"I", "n", "s", "u", "l", "i", "n", ",", " ", "p", "e", "n">>, codes |-> <<Code(<<"1">>, NDC), Code(<<"2">>, NDC)>>,
       prices |-> <<Price(30), Price(20)>>],
      [description |-> <<"x", "-", "r", "a", "y">>, codes |-> <<Code(<<"N", "D", "C", ":", "1">>, CDM)>>,
       prices |-> <<Price(50)>>],
      [description |-> <<"s", "c", "a", "n">>, codes |-> <<Code(<<"7">>, CPT), Code(<<"7">>, CDM)>>,
       prices |-> <<Price(70)>>],
      [description |-> <<>>, codes |-> <<Code(<<"1">>, NDC)>>, prices |-> <<Price(10)>>],
      [description |-> <<"s", "c", "a", "n">>, codes |-> <<>>, prices |-> <<Price(0)>>] }

\* raw items of a standard-charges file
RawItem(description, code_information, standard_charges) ==
    [description |-> description, code_information |-> code_information,
     standard_charges |-> standard_charges]

RawItems ==
    { RawItem(<<" ", "C", "T", " ", "S", "c", "a", "n", " ">>, <<Code(<<" ", "7">>, CPT)>>, <<<<"$", "1", ",", "0">>>>),
      RawItem(<<"I", "n", "s", "u", "l", "i", "n", ",", " ", "p", "e", "n">>, <<Code(<<"N", "D", "C", ":", "1">>, CDM), Code(<<"1">>, NDC)>>, <<<<"5">>, <<"0">>>>),
      RawItem(<<" ">>, <<Code(<<"7">>, CPT)>>, <<<<"5">>>>),
      RawItem(<<"s", "c", "a", "n">>, <<Code(<<"7">>, CPT)>>, <<<<"0">>, <<"x">>, <<"-", "5">>, None>>),
      RawItem(<<"s", "c", "a", "n">>, <<Code(<<" ">>, CPT)>>, <<<<"5">>>>) }

\* arguments of the lookups
QueryCodes == {<<"7">>, <<"1">>, <<"N", "D", "C", ":", "1">>}
QueryTypes == {None, CPT, NDC, CDM}
QueryDescriptions == {<<"c", "t", " ", "s", "c", "a", "n">>, <<"C", "T", " ", "S", "c", "a", "n">>, <<"x", "-", "r", "a", "y">>}
Str(s) == [kind |-> "str", val |-> s]
List(l) == [kind |-> "list", val |-> l]
QueryKeywords ==
    { Str(<<"c", "t", " ", "s", "c", "a", "n">>), Str(<<"i", "n", "s", "u", "l", "i", "n", ",">>), Str(<<"i", "n", "s", "u", "l", "i", "n">>), Str(<<"x", "-", "r", "a", "y">>),
      Str(<<"s", "c", "a", "n", " ", "p", "e", "n">>), Str(<<"c", "t">>), Str(<<>>),
      List(<<<<"s", "c", "a", "n">>>>), List(<<<<"i", "n", "s", "u", "l", "i", "n">>, <<"p", "e", "n">>>>), List(<<<<"p", "e", "n">>, <<"i", "n", "s", "u", "l", "i", "n">>, <<"s", "c", "a", "n">>>>) }

\* raw items of the files the datasets of app.py are built from
InsulinPen == RawItem(<<"i", "n", "s", "u", "l", "i", "n", " ", "p", "e", "n">>, <<Code(<<"0", "0", "0", "2", "-", "8", "3", "1", "5", "-", "0", "1">>, NDC)>>, <<<<"1", "0", "0">>>>)
InsulinPlain == RawItem(<<"I", "n", "s", "u", "l", "i", "n">>, <<Code(<<"0", "0", "0", "0", "2", "8", "3", "1", "5", "0", "1">>, NDC), Code(<<"J", "1", "8", "1", "5">>, HCPCS)>>, <<<<"1", "5", "0">>>>)
InsulinVial == RawItem(<<"i", "n", "s", "u", "l", "i", "n", " ", "v", "i", "a", "l">>, <<Code(<<"J", "1", "8", "1", "5">>, HCPCS)>>, <<<<"9", "0">>, <<"8", "0">>>>)
BlankItem == RawItem(<<" ">>, <<Code(<<"J", "1", "8", "1", "5">>, HCPCS)>>, <<<<"9", "0">>>>)

\* the items of the four files of HOSPITAL_FILES, in file order
HospitalFileItems ==
    [ stanford |-> <<InsulinPlain, InsulinVial>>,
      ucsf |-> <<InsulinPen>>,
      ucla |-> <<BlankItem, InsulinVial>>,
      cedars |-> <<InsulinPen>> ]

SearchTerms == {<<"i", "n", "s", "u", "l", "i", "n">>, <<"j", "1", "8", "1", "5">>, <<"i", "n", "s", "u", "l", "i", "n", " ", "p", "e", "n">>}
MaxResultsArgs == {1, 50}

\* the search arguments of GET /api/procedures
SearchArgs == {<<>>, <<" ", "i", "n", "s", "u", "l", "i", "n", " ">>, <<"j", "1", "8", "1", "5">>}

\* the search, code and code_type arguments of GET /api/pricing/match_..
PricingRequests ==
    { <<<<"i", "n", "s", "u", "l", "i", "n">>, <<"J", "1", "8", "1", "5">>, HCPCS>>, <<<<"i", "n", "s", "u", "l", "i", "n">>, <<"0", "0", "0", "0", "2", "8", "3", "1", "5", "0", "1">>, NDC>>,
      <<<<"i", "n", "s", "u", "l", "i", "n">>, <<"0", "0", "0", "2", "-", "8", "3", "1", "5", "-", "0", "1">>, NDC>>, <<<<>>, <<"J", "1", "8", "1", "5">>, HCPCS>> }

\* item_data dicts with every kind of price list, as a caller of add_item can
\* store them in the datasets app.py loads
PricedItems ==
    { [description |-> <<"s", "c", "a", "n">>, codes |-> <<Code(<<"7">>, CPT)>>,
       prices |-> <<Price(0), Price(0 - 5)>>],
      [description |-> <<"s", "c", "a", "n">>, codes |-> <<Code(<<"7">>, CPT)>>, prices |-> <<>>],
      [description |-> <<"s", "c", "a", "n">>, codes |-> <<Code(<<"7">>, CPT)>>,
       prices |-> <<Price(0), Price(100)>>],
      [description |-> <<"s", "c", "a", "n">>, codes |-> <<Code(<<"7">>, CPT)>>,
       prices |-> <<Price(150), Price(90)>>] }

\* the hospitals whose datasets the callers of add_item fill
DirectHospitals == {"stanford", "ucsf"}

\* the search term of the requests over those datasets
ScanTerm == <<"s", "c", "a", "n">>

\* the limit arguments of GET /api/procedures over those datasets
ScanLimits == {1, 50}

\* scenario: the spellings of the NDC 0002-8315-01 and the gross charges of
\* the three one-record files
NdcSpellings == {<<"0", "0", "0", "2", "-", "8", "3", "1", "5", "-", "0", "1">>, <<"0", "0", "0", "0", "2", "8", "3", "1", "5", "0", "1">>, <<"0", "0", "0", "2", ".", "8", "3", "1", "5", " ", "0", "1">>}
ScenarioCharges == {<<"1", "0", "0">>, <<"$", "1", "5", "0">>, <<"9", "0">>}
ScenarioRecord(spelling, charge) ==
    RawItem(<<"I", "n", "s", "u", "l", "i", "n", " ", "p", "e", "n">>, <<Code(spelling, NDC)>>, <<charge>>)

\* raw items of the files hash_matcher.py loads
HashRawItems ==
    { RawItem(<<"i", "n", "s", "u", "l", "i", "n", " ", "p", "e", "n">>, <<Code(<<"0", "0", "0", "2", "-", "8", "3", "1", "5", "-", "0", "1">>, NDC)>>, <<<<"1", "0", "0">>>>),
      RawItem(<<"I", "n", "s", "u", "l", "i", "n">>, <<Code(<<"1", "2", "3", "4", "5", "-", "6", "7", "8", "9", "-", "0", "1">>, <<"n", "d", "c">>), Code(<<"J", "1", "8", "1", "5">>, HCPCS)>>, <<<<"1", "5", "0">>>>),
      RawItem(<<"i", "n", "s", "u", "l", "i", "n", " ", "v", "i", "a", "l">>, <<Code(<<"j", "1", "8", "1", "5">>, HCPCS), Code(<<"1", "2", "3", "4", "5", "6", "7", "8", "9", "0", "1">>, NDC)>>, <<<<"0">>, <<"9", "0">>>>),
      RawItem(<<"s", "c", "a", "n">>, <<Code(<<"J", "1", "8", "1", "5">>, HCPCS)>>, <<<<"9", "0">>>>) }

\* the digit string of n digits that starts with z zeros
DigitString(n, z) ==
    [i \in 1..n |-> IF i <= z THEN "0" ELSE Ascii[OrdMap["0"] + 1 + ((i - z - 1) % 9)]]

\* digits with the separator sep put before the positions of P (position
\* Len(digits) + 1 standing for the end)
WithSeparators(digits, P, sep) ==
    LET piece(i) == IF i \in P THEN <<sep, digits[i]>> ELSE <<digits[i]>>
        RECURSIVE join(_)
        join(i) == IF i > Len(digits) THEN (IF i \in P THEN <<sep>> ELSE <<>>)
                   ELSE piece(i) \o join(i + 1)
    IN  join(1)

\* the inputs of normalize_ndc: up to MaxDigits digits with up to MaxSeps
\* separators anywhere, and the two spellings of the NDC 0002-8315-01
NdcInputs ==
    { WithSeparators(DigitString(n, z), P, sep) :
        <<n, z, P, sep>> \in
            { t \in (0..MaxDigits) \X {0, 2} \X (SUBSET (1..(MaxDigits + 1))) \X {"-", " "} :
                /\ t[2] <= t[1]
                /\ Cardinality(t[3]) <= MaxSeps
                /\ t[3] \subseteq 1..(t[1] + 1)
                /\ (t[3] = {} => t[4] = "-") } }
    \cup {<<"0", "0", "0", "2", "-", "8", "3", "1", "5", "-", "0", "1">>, <<"0", "0", "0", "0", "2", "8", "3", "1", "5", "0", "1">>}

\* raw items of the files ImprovedMatcher reads
Sling == RawItem(<<"S", "l", "i", "n", "g">>, <<Code(<<"7">>, CPT)>>, <<<<"1", "0", "0">>>>)
SlingDot == RawItem(<<"s", "l", "i", "n", "g", ".">>, <<>>, <<<<"9", "0">>>>)
Slink == RawItem(<<"s", "l", "i", "n", "k">>, <<>>, <<<<"0">>, <<"$", "1", "5", "0">>>>)
Cast == RawItem(<<" ", "c", "a", "s", "t", " ">>, <<Code(<<"0", "7">>, <<"c", "p", "t">>)>>, <<<<"8", "0">>>>)
InsulinCoded == RawItem(<<"i", "n", "s", "u", "l", "i", "n">>, <<Code(<<"7">>, CPT)>>, <<<<"7", "0">>>>)
ShortItem == RawItem(<<"a", "b">>, <<Code(<<"7">>, CPT)>>, <<<<"6", "0">>>>)
FreeItem == RawItem(<<"s", "l", "i", "n", "g">>, <<Code(<<"7">>, CPT)>>, <<<<"0">>>>)
XRay == RawItem(<<"X", "-", "r", "a", "y">>, <<>>, <<<<"4", "0">>>>)
XRaySpaced == RawItem(<<"x", " ", "r", "a", "y">>, <<>>, <<<<"5", "0">>>>)

\* the 'standard_charge_information' lists of the files ImprovedMatcher reads
ImprovedFiles ==
    { <<>>, <<Sling>>, <<ShortItem, SlingDot>>, <<Slink>>, <<Cast, FreeItem>>,
      <<InsulinCoded>>, <<Sling, SlingDot>>, <<XRay, XRaySpaced>> }

\* code_information entries of the records handed to the code overlap test
OverlapCodes ==
    { Code(<<"7">>, CPT), Code(<<"0", "7">>, CPT), Code(<<"7">>, <<"h", "c", "p", "c", "s">>), Code(<<"0">>, CPT),
      Code(<<"0", "0">>, HCPCS), Code(<<"8">>, CPT) }

\* the code_information lists of up to MaxCodes entries
OverlapCodeLists ==
    UNION {[1..n -> OverlapCodes] : n \in 0..MaxCodes}

\* raw items of the files read whole: two well-formed ones, one with a null
\* description, one with a null code_information, one with an unparsable price
GoodPen == RawItem(<<"i", "n", "s", "u", "l", "i", "n", " ", "p", "e", "n">>, <<Code(<<"1", "2", "3", "4", "5", "-", "6", "7", "8", "9", "-", "0", "1">>, NDC)>>, <<<<"1", "0", "0">>>>)
GoodVial == RawItem(<<"i", "n", "s", "u", "l", "i", "n", " ", "v", "i", "a", "l">>, <<Code(<<"J", "1", "8", "1", "5">>, HCPCS)>>, <<<<"9", "0">>>>)
NullDescription == RawItem(None, <<Code(<<"J", "1", "8", "1", "5">>, HCPCS)>>, <<<<"9", "0">>>>)
NullCodes == RawItem(<<"i", "n", "s", "u", "l", "i", "n", " ", "c", "a", "r", "t">>, NullList, <<<<"8", "0">>>>)
BadPrice == RawItem(<<"i", "n", "s", "u", "l", "i", "n", " ", "c", "a", "r", "t">>, <<Code(<<"J", "1", "8", "1", "5">>, HCPCS)>>, <<<<"x">>>>)
FileItems == {GoodPen, GoodVial, NullDescription, NullCodes, BadPrice}

\* the 'standard_charge_information' lists of up to MaxFileItems raw items
WholeFiles == UNION {[1..n -> FileItems] : n \in 0..MaxFileItems}

-----------------------------------------------------------------------------
(* HashMatcher *)

\* run: hospital_files, the hospital names in load order
HospitalFiles ==
    <<"UCSF Medical Center", "Stanford Health Care", "UCLA Health",
      "Cedars-Sinai Medical Center">>

\* HashMatcher.__init__, with the position of run() in hospital_files and the
\* processed_items of the load_hospital_data call under way
NewMatcher ==
    [hospital_data |-> <<>>, code_to_items |-> <<>>, file |-> 1, i |-> 0,
     processed_items |-> <<>>, read |-> 0]

DRG == <<"D", "R", "G">>
ICD10 == <<"I", "C", "D", "1", "0">>
ICD9 == <<"I", "C", "D", "9">>

\* re.sub(r'^[0\-\s]+', '', code)
RECURSIVE StripLeadingZeros(_)
StripLeadingZeros(code) ==
    IF code # <<>> /\ (Head(code) \in {"0", "-"} \/ IsSpace(Head(code)))
    THEN StripLeadingZeros(Tail(code)) ELSE code

NotSeparator(c) == ~(c \in {"-", "."} \/ IsSpace(c))

\* HashMatcher.normalize_code; '' is the failure result
normalize_code(code, code_type) ==
    IF code = <<>> \/ code = None THEN <<>>
    ELSE LET cleaned == KeepChars(NotSeparator, StripLeadingZeros(Upper(Strip(code))))
             digits == DigitsOnly(cleaned)
         IN  IF code_type = NDC
             THEN (IF Len(digits) >= 9 THEN NDC \o <<"_">> \o digits ELSE <<>>)
             ELSE IF code_type \in {CPT, HCPCS}
             THEN (IF Len(cleaned) >= 3 THEN code_type \o <<"_">> \o cleaned ELSE <<>>)
             ELSE IF code_type = DRG
             THEN (IF Len(digits) >= 2 THEN DRG \o <<"_">> \o digits ELSE <<>>)
             ELSE IF code_type \in {ICD10, ICD9}
             THEN code_type \o <<"_">> \o cleaned
             ELSE (IF Len(cleaned) >= 3 THEN code_type \o <<"_">> \o cleaned ELSE <<>>)

\* HashMatcher.extract_codes: (code_value, code_type) pairs
RECURSIVE extract_codes(_)
extract_codes(code_information) ==
    IF code_information = <<>> THEN <<>>
    ELSE LET code_value == Strip(Head(code_information).code)
             code_type == Upper(Strip(Head(code_information).type))
         IN  (IF code_value # <<>> /\ code_type # <<>>
              THEN << <<code_value, code_type>> >> ELSE <<>>)
             \o extract_codes(Tail(code_information))

\* HashMatcher.extract_price: [none, value], the first gross_charge that parses
\* to a positive amount, else None
RECURSIVE extract_price(_)
extract_price(standard_charges) ==
    IF standard_charges = <<>> THEN [none |-> TRUE, value |-> 0]
    ELSE LET gross_charge == Head(standard_charges)
             value == ParseFloat(RemoveChar(RemoveChar(gross_charge, "$"), ","))
         IN  IF gross_charge # None /\ gross_charge # <<>> /\ value.ok /\ value.value > 0
             THEN [none |-> FALSE, value |-> value.value]
             ELSE extract_price(Tail(standard_charges))

\* load_hospital_data: (code_value, code_type, normalized) for the codes that
\* normalize
RECURSIVE NormalizedCodes(_)
NormalizedCodes(codes) ==
    IF codes = <<>> THEN <<>>
    ELSE LET normalized == normalize_code(Head(codes)[1], Head(codes)[2])
         IN  (IF normalized # <<>>
              THEN << <<Head(codes)[1], Head(codes)[2], normalized>> >> ELSE <<>>)
             \o NormalizedCodes(Tail(codes))

\* self.code_to_items[normalized_code].append(processed_item), keys in
\* insertion order
AppendUnderCode(code_to_items, normalized_code, processed_item) ==
    IF \E k \in 1..Len(code_to_items) : code_to_items[k].code = normalized_code
    THEN [k \in 1..Len(code_to_items) |->
            IF code_to_items[k].code = normalized_code
            THEN [code_to_items[k] EXCEPT !.items = Append(@, processed_item)]
            ELSE code_to_items[k]]
    ELSE Append(code_to_items, [code |-> normalized_code, items |-> <<processed_item>>])

\* faulty variant: the item is stored under its first normalized code only
AppendUnderCodes_FirstOnly(code_to_items, normalized_codes, processed_item) ==
    IF normalized_codes = <<>> THEN code_to_items
    ELSE AppendUnderCode(code_to_items, Head(normalized_codes)[3], processed_item)

RECURSIVE AppendUnderCodes(_, _, _)
AppendUnderCodes(code_to_items, normalized_codes, processed_item) ==
    IF normalized_codes = <<>> THEN code_to_items
    ELSE AppendUnderCodes(
            AppendUnderCode(code_to_items, Head(normalized_codes)[3], processed_item),
            Tail(normalized_codes), processed_item)

\* load_hospital_data, the body of the loop over the raw items (the category
\* of the processed item, which no matching step reads, is left out)
LoadStep(m, item, hospital_name) ==
    LET description == Strip(item.description)
        codes == extract_codes(item.code_information)
        price == extract_price(item.standard_charges)
        normalized_codes == NormalizedCodes(codes)
        processed_item ==
            [hospital |-> hospital_name, description |-> description,
             price |-> price.value, original_codes |-> codes,
             normalized_codes |-> normalized_codes]
    IN  IF description = <<>> \/ Len(description) < 5 THEN m
        ELSE IF price.none \/ price.value <= 0 THEN m
        ELSE IF normalized_codes = <<>> THEN m
        ELSE [m EXCEPT
                !.processed_items = Append(@, processed_item),
                !.code_to_items = AppendUnderCodes(@, normalized_codes, processed_item)]

\* load_hospital_data: the loop body raises on the raw item: None (JSON null) has
\* no strip() (line 186) and cannot be iterated (extract_codes, line 120)
LoadRaises(item) ==
    \/ item.description = None
    \/ /\ Len(Strip(item.description)) >= 5
       /\ item.code_information = NullList

\* load_hospital_data, the loop over the raw items: [raised, m]
RECURSIVE LoadItems(_, _, _)
LoadItems(m, items, hospital_name) ==
    IF items = <<>> THEN [raised |-> FALSE, m |-> m]
    ELSE IF LoadRaises(Head(items)) THEN [raised |-> TRUE, m |-> m]
    ELSE LoadItems(LoadStep(m, Head(items), hospital_name), Tail(items), hospital_name)

\* HashMatcher.load_hospital_data on a file that exists: the try block ends
\* with self.hospital_data[hospital_name] = processed_items, and the handler of
\* `except Exception` prints the error
HashMatcher_load_hospital_data(m, items, hospital_name) ==
    LET r == LoadItems([m EXCEPT !.processed_items = <<>>], items, hospital_name)
    IN  IF r.raised THEN [r.m EXCEPT !.processed_items = <<>>]
        ELSE [r.m EXCEPT !.hospital_data =
                             Append(@, [hospital |-> hospital_name,
                                        items |-> r.m.processed_items]),
                         !.processed_items = <<>>]

\* find_code_matches: hospitals_with_items, a list of [hospital, items] in
\* insertion order
RECURSIVE HospitalsWithItems(_, _)
HospitalsWithItems(items, acc) ==
    IF items = <<>> THEN acc
    ELSE LET item == Head(items)
         IN  HospitalsWithItems(Tail(items),
                IF \E k \in 1..Len(acc) : acc[k].hospital = item.hospital
                THEN [k \in 1..Len(acc) |->
                        IF acc[k].hospital = item.hospital
                        THEN [acc[k] EXCEPT !.items = Append(@, item)] ELSE acc[k]]
                ELSE Append(acc, [hospital |-> item.hospital, items |-> <<item>>]))

\* max(items, key=lambda x: len(x['description'])): the first of the longest
LongestDescription(items) ==
    LET k == CHOOSE i \in 1..Len(items) :
                /\ \A j \in 1..Len(items) :
                      Len(items[j].description) <= Len(items[i].description)
                /\ \A j \in 1..(i - 1) :
                      Len(items[j].description) < Len(items[i].description)
    IN  items[k]

\* faulty variant: a code held by a single hospital is a match
CodeMatches_Any(hospitals_with_items) == Len(hospitals_with_items) >= 1

\* find_code_matches: only codes that appear in several hospitals are kept
CodeMatches(hospitals_with_items) == Len(hospitals_with_items) >= 2

\* find_code_matches, the loop over code_to_items
RECURSIVE CodeMatchList(_)
CodeMatchList(code_to_items) ==
    IF code_to_items = <<>> THEN <<>>
    ELSE LET entry == Head(code_to_items)
             hospitals_with_items == HospitalsWithItems(entry.items, <<>>)
         IN  (IF CodeMatches(hospitals_with_items)
              THEN << [code |-> entry.code,
                       items |-> [k \in 1..Len(hospitals_with_items) |->
                                    LongestDescription(hospitals_with_items[k].items)],
                       hospital_count |-> Len(hospitals_with_items),
                       total_items |-> Len(entry.items)] >>
              ELSE <<>>)
             \o CodeMatchList(Tail(code_to_items))

\* matches.sort(key=hospital_count, reverse=True): descending, matches of equal
\* count in their original order
RECURSIVE SortedMatches(_, _)
SortedMatches(matches, acc) ==
    IF matches = <<>> THEN acc
    ELSE LET x == Head(matches)
             before == {k \in 1..Len(acc) : acc[k].hospital_count < x.hospital_count}
             pos == IF before = {} THEN Len(acc) + 1
                    ELSE CHOOSE k \in before : \A j \in before : k <= j
         IN  SortedMatches(Tail(matches),
                           SubSeq(acc, 1, pos - 1) \o <<x>> \o SubSeq(acc, pos, Len(acc)))

\* HashMatcher.find_code_matches
find_code_matches(m) == SortedMatches(CodeMatchList(m.code_to_items), <<>>)

\* create_database_from_matches: the description of the procedure stored for a
\* match, that of the item with the longest description
ProcedureDescription(match) == LongestDescription(match.items).description

-----------------------------------------------------------------------------
(* ImprovedMatcher (improved_matcher.py) *)

\* ImprovedMatcher.__init__, with the position of run_improved_matching in
\* hospital_files
NewImprovedMatcher == [hospital_data |-> <<>>, all_items |-> <<>>, file |-> 1]

\* re.sub(r'^0+', '', code)
RECURSIVE StripZeros(_)
StripZeros(code) ==
    IF code # <<>> /\ Head(code) = "0" THEN StripZeros(Tail(code)) ELSE code

\* ImprovedMatcher.normalize_code
ImprovedMatcher_normalize_code(code) ==
    IF code = <<>> \/ code = None THEN <<>>
    ELSE StripZeros(Upper(Strip(code)))

\* ImprovedMatcher.extract_all_codes: (code_value, code_type) pairs
RECURSIVE extract_all_codes(_)
extract_all_codes(code_information) ==
    IF code_information = <<>> THEN <<>>
    ELSE LET code_value == Strip(Head(code_information).code)
             code_type == Upper(Strip(Head(code_information).type))
         IN  (IF code_value # <<>> /\ code_type # <<>>
              THEN << <<code_value, code_type>> >> ELSE <<>>)
             \o extract_all_codes(Tail(code_information))

\* ImprovedMatcher.extract_price: [none, value], the first gross_charge that
\* parses to a positive amount, else None
RECURSIVE ImprovedMatcher_extract_price(_)
ImprovedMatcher_extract_price(standard_charges) ==
    IF standard_charges = <<>> THEN [none |-> TRUE, value |-> 0]
    ELSE LET gross_charge == Head(standard_charges)
             value == ParseFloat(RemoveChar(RemoveChar(gross_charge, "$"), ","))
         IN  IF gross_charge # None /\ gross_charge # <<>> /\ value.ok /\ value.value > 0
             THEN [none |-> FALSE, value |-> value.value]
             ELSE ImprovedMatcher_extract_price(Tail(standard_charges))

\* word in s, for two str
IsIn(word, s) ==
    \E i \in 0..(Len(s) - Len(word)) : SubSeq(s, i + 1, i + Len(word)) = word

\* categorize_procedure: the keyword lists, in the order of the elif chain
CategoryKeywords ==
    << [category |-> <<"D", "i", "a", "b", "e", "t", "e", "s", " ", "C", "a", "r", "e">>,
        words |-> {<<"i", "n", "s", "u", "l", "i", "n">>, <<"d", "i", "a", "b", "e", "t", "i", "c">>, <<"g", "l", "u", "c", "o", "s", "e">>}],
       [category |-> <<"A", "n", "t", "i", "b", "i", "o", "t", "i", "c", "s">>,
        words |-> {<<"a", "n", "t", "i", "b", "i", "o", "t", "i", "c">>, <<"p", "e", "n", "i", "c", "i", "l", "l", "i", "n">>, <<"a", "m", "o", "x", "i", "c", "i", "l", "l", "i", "n">>, <<"a", "z", "i", "t", "h", "r", "o", "m", "y", "c", "i", "n">>}],
       [category |-> <<"C", "a", "r", "d", "i", "o", "v", "a", "s", "c", "u", "l", "a", "r">>,
        words |-> {<<"b", "l", "o", "o", "d", " ", "p", "r", "e", "s", "s", "u", "r", "e">>, <<"h", "y", "p", "e", "r", "t", "e", "n", "s", "i", "o", "n">>, <<"m", "e", "t", "o", "p", "r", "o", "l", "o", "l">>, <<"l", "i", "s", "i", "n", "o", "p", "r", "i", "l">>}],
       [category |-> <<"I", "m", "a", "g", "i", "n", "g">>,
        words |-> {<<"m", "r", "i">>, <<"c", "t", " ", "s", "c", "a", "n">>, <<"x", "-", "r", "a", "y">>, <<"u", "l", "t", "r", "a", "s", "o", "u", "n", "d">>, <<"e", "c", "h", "o">>}],
       [category |-> <<"S", "u", "r", "g", "e", "r", "y">>,
        words |-> {<<"s", "u", "r", "g", "e", "r", "y">>, <<"s", "u", "r", "g", "i", "c", "a", "l">>, <<"o", "p", "e", "r", "a", "t", "i", "o", "n">>}],
       [category |-> <<"L", "a", "b", "o", "r", "a", "t", "o", "r", "y">>,
        words |-> {<<"l", "a", "b">>, <<"t", "e", "s", "t">>, <<"a", "n", "a", "l", "y", "s", "i", "s">>, <<"p", "a", "n", "e", "l">>}],
       [category |-> <<"V", "a", "c", "c", "i", "n", "e", "s">>,
        words |-> {<<"v", "a", "c", "c", "i", "n", "e">>, <<"i", "m", "m", "u", "n", "i", "z", "a", "t", "i", "o", "n">>, <<"f", "l", "u", " ", "s", "h", "o", "t">>}],
       [category |-> <<"P", "a", "i", "n", " ", "M", "a", "n", "a", "g", "e", "m", "e", "n", "t">>,
        words |-> {<<"p", "a", "i", "n">>, <<"a", "n", "a", "l", "g", "e", "s", "i", "c">>, <<"m", "o", "r", "p", "h", "i", "n", "e">>, <<"o", "x", "y", "c", "o", "d", "o", "n", "e">>}] >>

Other == <<"O", "t", "h", "e", "r">>

\* ImprovedMatcher.categorize_procedure
categorize_procedure(description) ==
    LET desc_lower == Lower(description)
        hits == {k \in 1..Len(CategoryKeywords) :
                    \E word \in CategoryKeywords[k].words : IsIn(word, desc_lower)}
    IN  IF hits = {} THEN Other
        ELSE CategoryKeywords[CHOOSE k \in hits : \A j \in hits : k <= j].category

\* re.sub(r'[^\w\s]', ' ', s)
PunctuationToSpace(s) ==
    [i \in 1..Len(s) |-> IF IsWordChar(s[i]) \/ IsSpace(s[i]) THEN s[i] ELSE " "]

\* difflib.SequenceMatcher: the length of the match of a[i:ahi] and b[j:bhi]
\* that starts at i and j (positions count from 1, ahi and bhi are exclusive)
RECURSIVE MatchLength(_, _, _, _, _, _)
MatchLength(a, b, i, j, ahi, bhi) ==
    IF i < ahi /\ j < bhi /\ a[i] = b[j]
    THEN 1 + MatchLength(a, b, i + 1, j + 1, ahi, bhi)
    ELSE 0

\* SequenceMatcher.find_longest_match(alo, ahi, blo, bhi) with no junk (isjunk
\* is None, and the popularity heuristic needs 200 characters): the longest
\* matching block, of those the one that starts earliest in a, of those the
\* one that starts earliest in b; [i, j, size]
find_longest_match(a, b, alo, ahi, blo, bhi) ==
    LET starts == (alo..(ahi - 1)) \X (blo..(bhi - 1))
        size == [p \in starts |-> MatchLength(a, b, p[1], p[2], ahi, bhi)]
        bestsize == IF starts = {} THEN 0
                    ELSE size[CHOOSE p \in starts : \A q \in starts : size[q] <= size[p]]
        besti == CHOOSE i \in alo..(ahi - 1) :
                    /\ \E j \in blo..(bhi - 1) : size[<<i, j>>] = bestsize
                    /\ \A k \in alo..(i - 1) : \A j \in blo..(bhi - 1) : size[<<k, j>>] # bestsize
        bestj == CHOOSE j \in blo..(bhi - 1) :
                    /\ size[<<besti, j>>] = bestsize
                    /\ \A k \in blo..(j - 1) : size[<<besti, k>>] # bestsize
    IN  IF bestsize = 0 THEN [i |-> alo, j |-> blo, size |-> 0]
        ELSE [i |-> besti, j |-> bestj, size |-> bestsize]

\* SequenceMatcher.get_matching_blocks, summed: the number of matched
\* characters of a[alo:ahi] and b[blo:bhi]
RECURSIVE MatchedCharacters(_, _, _, _, _, _)
MatchedCharacters(a, b, alo, ahi, blo, bhi) ==
    LET m == find_longest_match(a, b, alo, ahi, blo, bhi)
    IN  IF m.size = 0 THEN 0
        ELSE m.size
             + (IF alo < m.i /\ blo < m.j THEN MatchedCharacters(a, b, alo, m.i, blo, m.j) ELSE 0)
             + (IF m.i + m.size < ahi /\ m.j + m.size < bhi
                THEN MatchedCharacters(a, b, m.i + m.size, ahi, m.j + m.size, bhi) ELSE 0)

\* ImprovedMatcher.similarity_score: SequenceMatcher(None, str1.lower(),
\* str2.lower()).ratio() = 2.0 * matches / length (1.0 for two empty strings),
\* kept as the exact fraction [matches, length]
similarity_score(str1, str2) ==
    LET a == Lower(str1)
        b == Lower(str2)
    IN  IF Len(a) + Len(b) = 0 THEN [matches |-> 1, length |-> 2]
        ELSE [matches |-> MatchedCharacters(a, b, 1, Len(a) + 1, 1, Len(b) + 1),
              length |-> Len(a) + Len(b)]

\* score > tenths / 10 on floats: 2.0 * matches / length is the double nearest
\* to the fraction and tenths / 10 is written as the double nearest to it, so
\* for strings of this size the floats compare as the fractions do
ScoreAbove(score, tenths) == 2 * score.matches * 10 > tenths * score.length

\* load_hospital_data, the body of the loop over the raw items (lines 170-198);
\* st holds hospital_items and self.all_items
ImprovedLoadStep(st, item, hospital_name) ==
    LET description == Strip(item.description)
        codes == extract_all_codes(item.code_information)
        price == ImprovedMatcher_extract_price(item.standard_charges)
        processed_item ==
            [hospital |-> hospital_name, description |-> description,
             price |-> price.value, codes |-> codes,
             category |-> categorize_procedure(description),
             normalized_desc |-> Strip(PunctuationToSpace(Lower(description)))]
    IN  IF description = <<>> \/ Len(description) < 3 THEN st
        ELSE IF price.none \/ price.value <= 0 THEN st
        ELSE [hospital_items |-> Append(st.hospital_items, processed_item),
              all_items |-> Append(st.all_items, processed_item)]

\* load_hospital_data, the loop over the raw items
RECURSIVE ImprovedLoadItems(_, _, _)
ImprovedLoadItems(st, items, hospital_name) ==
    IF items = <<>> THEN st
    ELSE ImprovedLoadItems(ImprovedLoadStep(st, Head(items), hospital_name),
                           Tail(items), hospital_name)

\* ImprovedMatcher.load_hospital_data for a file that exists and holds items
\* under 'standard_charge_information'
load_hospital_data(m, items, hospital_name) ==
    LET st == ImprovedLoadItems([hospital_items |-> <<>>, all_items |-> m.all_items],
                                items, hospital_name)
    IN  [m EXCEPT !.all_items = st.all_items,
                  !.hospital_data = Append(@, [hospital |-> hospital_name,
                                               items |-> st.hospital_items])]

\* find_matches: the records are the dicts of all_items, and a reference to one
\* is its position in all_items

\* the keys of by_category in insertion order
RECURSIVE CategoryOrder(_, _)
CategoryOrder(all_items, seen) ==
    IF all_items = <<>> THEN seen
    ELSE CategoryOrder(Tail(all_items),
                       IF Head(all_items).category \in Range(seen) THEN seen
                       ELSE Append(seen, Head(all_items).category))

\* by_category[category]
RECURSIVE CategoryItems(_, _, _)
CategoryItems(all_items, category, k) ==
    IF k > Len(all_items) THEN <<>>
    ELSE (IF all_items[k].category = category THEN <<k>> ELSE <<>>)
         \o CategoryItems(all_items, category, k + 1)

\* {self.normalize_code(c[0]) for c in codes}
NormalizedCodeSet(codes) ==
    {ImprovedMatcher_normalize_code(codes[k][1]) : k \in 1..Len(codes)}

\* find_matches, lines 252-257
code_overlap(item, other_item) ==
    /\ item.codes # <<>>
    /\ other_item.codes # <<>>
    /\ NormalizedCodeSet(item.codes) \cap NormalizedCodeSet(other_item.codes) # {}

\* faulty variant: a similarity of exactly 0.8 is enough
Included_AtLeast(item, other_item) ==
    LET score == similarity_score(item.normalized_desc, other_item.normalized_desc)
    IN  \/ 2 * score.matches * 10 >= 8 * score.length
        \/ code_overlap(item, other_item)

\* find_matches, line 260: desc_similarity > 0.8 or code_overlap
Included(item, other_item) ==
    \/ ScoreAbove(similarity_score(item.normalized_desc, other_item.normalized_desc), 8)
    \/ code_overlap(item, other_item)

\* find_matches, lines 242-261: similar_items of the seed at position seed
RECURSIVE SimilarItems(_, _, _, _)
SimilarItems(all_items, category_items, seed, k) ==
    IF k > Len(category_items) THEN <<>>
    ELSE LET item == all_items[seed]
             other_item == all_items[category_items[k]]
         IN  (IF other_item.hospital # item.hospital /\ Included(item, other_item)
              THEN <<category_items[k]>> ELSE <<>>)
             \o SimilarItems(all_items, category_items, seed, k + 1)

\* find_matches, lines 232-236
Skip(desc, processed_descriptions) ==
    \E processed_desc \in processed_descriptions :
        ScoreAbove(similarity_score(desc, processed_desc), 9)

\* find_matches, the loop over the items of one category (lines 228-268), from
\* the k-th item on
RECURSIVE CategoryGroups(_, _, _, _)
CategoryGroups(all_items, category_items, k, st) ==
    IF k > Len(category_items) THEN st
    ELSE LET seed == category_items[k]
             desc == all_items[seed].normalized_desc
             similar_items == <<seed>> \o SimilarItems(all_items, category_items, seed, 1)
             hospitals_represented ==
                 {all_items[similar_items[n]].hospital : n \in 1..Len(similar_items)}
         IN  IF Skip(desc, st.processed_descriptions)
             THEN CategoryGroups(all_items, category_items, k + 1, st)
             ELSE IF Cardinality(hospitals_represented) >= 2
             THEN CategoryGroups(all_items, category_items, k + 1,
                     [st EXCEPT !.desc_groups = Append(@, similar_items),
                                !.found = Append(@, similar_items),
                                !.processed_descriptions = @ \cup {desc},
                                !.total_procedures = @ + 1])
             ELSE CategoryGroups(all_items, category_items, k + 1, st)

\* faulty variant: the processed descriptions are forgotten with every category
EnterCategory_FreshDescriptions(st) ==
    [st EXCEPT !.desc_groups = <<>>, !.bound = TRUE, !.processed_descriptions = {}]

\* find_matches, line 226: desc_groups is bound anew in every category
EnterCategory(st) == [st EXCEPT !.desc_groups = <<>>, !.bound = TRUE]

\* find_matches, the loop over by_category.items() (line 222)
RECURSIVE CategoryLoop(_, _, _)
CategoryLoop(all_items, categories, st) ==
    IF categories = <<>> THEN st
    ELSE CategoryLoop(all_items, Tail(categories),
            CategoryGroups(all_items, CategoryItems(all_items, Head(categories), 1), 1,
                           EnterCategory(st)))

\* ImprovedMatcher.find_matches: [raised, desc_groups, total_procedures];
\* raised stands for the UnboundLocalError of `return desc_groups` when the
\* loop over the categories never ran.  found is the history of the call:
\* every group appended to a desc_groups list, the groups total_procedures
\* counts
find_matches(all_items) ==
    LET st == CategoryLoop(all_items, CategoryOrder(all_items, <<>>),
                           [processed_descriptions |-> {}, desc_groups |-> <<>>,
                            found |-> <<>>, total_procedures |-> 0, bound |-> FALSE])
    IN  [raised |-> ~st.bound, desc_groups |-> st.desc_groups,
         total_procedures |-> st.total_procedures, found |-> st.found]

-----------------------------------------------------------------------------
(* FastMatcher (fast_matcher.py) *)

\* FastMatcher.__init__, with the position of run in hospital_files;
\* hospital_data holds its entries in insertion order
NewFastMatcher == [hospital_data |-> <<>>, file |-> 1]

\* FastMatcher.extract_codes: (code_value, code_type) pairs
RECURSIVE FastMatcher_extract_codes(_)
FastMatcher_extract_codes(code_information) ==
    IF code_information = <<>> THEN <<>>
    ELSE LET code_value == Strip(Head(code_information).code)
             code_type == Upper(Strip(Head(code_information).type))
         IN  (IF code_value # <<>> /\ code_type # <<>>
              THEN << <<code_value, code_type>> >> ELSE <<>>)
             \o FastMatcher_extract_codes(Tail(code_information))

\* FastMatcher.extract_price: [none, value], the first gross_charge that parses
\* to a positive amount, else None
RECURSIVE FastMatcher_extract_price(_)
FastMatcher_extract_price(standard_charges) ==
    IF standard_charges = <<>> THEN [none |-> TRUE, value |-> 0]
    ELSE LET gross_charge == Head(standard_charges)
             value == ParseFloat(RemoveChar(RemoveChar(gross_charge, "$"), ","))
         IN  IF gross_charge # None /\ gross_charge # <<>> /\ value.ok /\ value.value > 0
             THEN [none |-> FALSE, value |-> value.value]
             ELSE FastMatcher_extract_price(Tail(standard_charges))

\* FastMatcher.categorize_procedure: the keyword lists, in the order of the
\* elif chain
FastCategoryKeywords ==
    << [category |-> <<"D", "i", "a", "b", "e", "t", "e", "s">>,
        words |-> {<<"i", "n", "s", "u", "l", "i", "n">>, <<"g", "l", "u", "c", "o", "s", "e">>, <<"d", "i", "a", "b", "e", "t", "i", "c">>}],
       [category |-> <<"I", "m", "a", "g", "i", "n", "g">>,
        words |-> {<<"m", "r", "i">>, <<"c", "t", " ", "s", "c", "a", "n">>, <<"x", "-", "r", "a", "y">>, <<"u", "l", "t", "r", "a", "s", "o", "u", "n", "d">>, <<"i", "m", "a", "g", "i", "n", "g">>}],
       [category |-> <<"S", "u", "r", "g", "e", "r", "y">>,
        words |-> {<<"s", "u", "r", "g", "e", "r", "y">>, <<"s", "u", "r", "g", "i", "c", "a", "l">>, <<"o", "p", "e", "r", "a", "t", "i", "o", "n">>}],
       [category |-> <<"L", "a", "b", "o", "r", "a", "t", "o", "r", "y">>,
        words |-> {<<"l", "a", "b">>, <<"t", "e", "s", "t">>, <<"b", "l", "o", "o", "d">>, <<"a", "n", "a", "l", "y", "s", "i", "s">>}],
       [category |-> <<"V", "a", "c", "c", "i", "n", "e", "s">>,
        words |-> {<<"v", "a", "c", "c", "i", "n", "e">>, <<"i", "m", "m", "u", "n", "i", "z", "a", "t", "i", "o", "n">>}],
       [category |-> <<"M", "e", "d", "i", "c", "a", "t", "i", "o", "n", "s">>,
        words |-> {<<"a", "n", "t", "i", "b", "i", "o", "t", "i", "c">>, <<"m", "e", "d", "i", "c", "a", "t", "i", "o", "n">>, <<"d", "r", "u", "g">>}] >>

\* FastMatcher.categorize_procedure
FastMatcher_categorize_procedure(description) ==
    LET desc_lower == Lower(description)
        hits == {k \in 1..Len(FastCategoryKeywords) :
                    \E word \in FastCategoryKeywords[k].words : IsIn(word, desc_lower)}
    IN  IF hits = {} THEN Other
        ELSE FastCategoryKeywords[CHOOSE k \in hits : \A j \in hits : k <= j].category

\* re.sub(r'\s+', ' ', s)
RECURSIVE CollapseSpaces(_)
CollapseSpaces(s) ==
    IF s = <<>> THEN <<>>
    ELSE IF IsSpace(Head(s))
    THEN IF Len(s) >= 2 /\ IsSpace(s[2]) THEN CollapseSpaces(Tail(s))
         ELSE <<" ">> \o CollapseSpaces(Tail(s))
    ELSE <<Head(s)>> \o CollapseSpaces(Tail(s))

\* FastMatcher.normalize_description
normalize_description(desc) ==
    Strip(CollapseSpaces(PunctuationToSpace(Lower(desc))))

\* description_similarity: the words that are left out of the comparison
common_words ==
    {<<"m", "g">>, <<"m", "l">>, <<"u", "n", "i", "t">>, <<"d", "o", "s", "e">>, <<"t", "a", "b", "l", "e", "t">>, <<"i", "n", "j", "e", "c", "t", "i", "o", "n">>, <<"s", "o", "l", "u", "t", "i", "o", "n">>,
     <<"e", "a", "c", "h">>, <<"p", "e", "r">>, <<"o", "f">>, <<"f", "o", "r">>, <<"w", "i", "t", "h">>, <<"a", "n", "d">>, <<"o", "r">>, <<"t", "h", "e">>, <<"a">>, <<"a", "n">>}

\* FastMatcher.description_similarity; overlap >= max(2, min_words * 0.6) is
\* overlap >= 2 and overlap >= min_words * 0.6, and for these word counts the
\* float product compares with the integer overlap as the fraction does
description_similarity(desc1, desc2) ==
    LET words1 == Range(Split(desc1)) \ common_words
        words2 == Range(Split(desc2)) \ common_words
        overlap == Cardinality(words1 \cap words2)
        min_words == Min(Cardinality(words1), Cardinality(words2))
    IN  IF words1 = {} \/ words2 = {} THEN FALSE
        ELSE overlap >= 2 /\ 10 * overlap >= 6 * min_words

\* FastMatcher.load_hospital_data, the body of the loop over the raw items
\* (lines 170-187); processed_items is the list built so far
FastLoadStep(processed_items, item, hospital_name) ==
    LET description == Strip(item.description)
        codes == FastMatcher_extract_codes(item.code_information)
        price == FastMatcher_extract_price(item.standard_charges)
    IN  IF description = <<>> \/ Len(description) < 5 THEN processed_items
        ELSE IF price.none \/ price.value <= 0 THEN processed_items
        ELSE Append(processed_items,
                    [hospital |-> hospital_name, description |-> description,
                     normalized_desc |-> normalize_description(description),
                     price |-> price.value, codes |-> codes,
                     category |-> FastMatcher_categorize_procedure(description)])

\* FastMatcher.load_hospital_data, the loop over the raw items
RECURSIVE FastLoadItems(_, _, _)
FastLoadItems(processed_items, items, hospital_name) ==
    IF items = <<>> THEN processed_items
    ELSE FastLoadItems(FastLoadStep(processed_items, Head(items), hospital_name),
                       Tail(items), hospital_name)

\* FastMatcher.load_hospital_data for a file that exists and holds items with
\* a description, code_information and standard_charges under
\* 'standard_charge_information'
FastMatcher_load_hospital_data(m, items, hospital_name) ==
    [m EXCEPT !.hospital_data =
                 Append(@, [hospital |-> hospital_name,
                            items |-> FastLoadItems(<<>>, items, hospital_name)])]

\* find_matches_fast: the records in the order of the loops over
\* self.hospital_data.items() and over the items of each hospital; a reference
\* to a record is its position in this list
RECURSIVE FastRecords(_)
FastRecords(hospital_data) ==
    IF hospital_data = <<>> THEN <<>>
    ELSE Head(hospital_data).items \o FastRecords(Tail(hospital_data))

\* f"{item['codes'][0][0]}|{item['codes'][0][1]}"
PrimaryCode(item) == item.codes[1][1] \o <<"|">> \o item.codes[1][2]

\* find_matches_fast, lines 200-210: code_groups (its entries in insertion
\* order) and no_code_items after the records from position k on
RECURSIVE CodePass(_, _, _)
CodePass(records, k, st) ==
    IF k > Len(records) THEN st
    ELSE IF records[k].codes # <<>>
    THEN LET primary_code == PrimaryCode(records[k])
             known == \E g \in 1..Len(st.code_groups) :
                         st.code_groups[g].code = primary_code
             groups == IF known THEN st.code_groups
                       ELSE Append(st.code_groups, [code |-> primary_code, items |-> <<>>])
         IN  CodePass(records, k + 1,
                      [st EXCEPT !.code_groups =
                          [g \in 1..Len(groups) |->
                              IF groups[g].code = primary_code
                              THEN [groups[g] EXCEPT !.items = Append(@, k)]
                              ELSE groups[g]]])
    ELSE CodePass(records, k + 1, [st EXCEPT !.no_code_items = Append(@, k)])

\* set(item['hospital'] for item in items)
GroupHospitalSet(records, items) == {records[items[k]].hospital : k \in 1..Len(items)}

\* find_matches_fast, lines 217 and 252: a group is emitted when its records
\* come from at least two hospitals
Emitted(records, items) == Cardinality(GroupHospitalSet(records, items)) >= 2

\* the lists of `groups`, a sequence of lists of records, that are emitted
RECURSIVE EmittedGroups(_, _)
EmittedGroups(records, groups) ==
    IF groups = <<>> THEN <<>>
    ELSE (IF Emitted(records, Head(groups)) THEN <<Head(groups)>> ELSE <<>>)
         \o EmittedGroups(records, Tail(groups))

\* the keys of by_category in insertion order
RECURSIVE FastCategoryOrder(_, _, _)
FastCategoryOrder(records, no_code_items, seen) ==
    IF no_code_items = <<>> THEN seen
    ELSE FastCategoryOrder(records, Tail(no_code_items),
                           IF records[Head(no_code_items)].category \in Range(seen) THEN seen
                           ELSE Append(seen, records[Head(no_code_items)].category))

\* by_category[category]
RECURSIVE FastCategoryItems(_, _, _)
FastCategoryItems(records, no_code_items, category) ==
    IF no_code_items = <<>> THEN <<>>
    ELSE (IF records[Head(no_code_items)].category = category
          THEN <<Head(no_code_items)>> ELSE <<>>)
         \o FastCategoryItems(records, Tail(no_code_items), category)

\* find_matches_fast, lines 238-248: `grouped` after the items are placed, each
\* in the first group whose first record is similar to it
RECURSIVE Grouped(_, _, _)
Grouped(records, items, grouped) ==
    IF items = <<>> THEN grouped
    ELSE LET item == Head(items)
             similar == {g \in 1..Len(grouped) :
                            description_similarity(records[item].normalized_desc,
                                                   records[grouped[g][1]].normalized_desc)}
             first == CHOOSE g \in similar : \A j \in similar : g <= j
         IN  Grouped(records, Tail(items),
                     IF similar = {} THEN Append(grouped, <<item>>)
                     ELSE [grouped EXCEPT ![first] = Append(@, item)])

\* find_matches_fast, the loop over by_category (lines 231-255): the groups
\* appended to matches
RECURSIVE DescriptionPass(_, _, _)
DescriptionPass(records, no_code_items, categories) ==
    IF categories = <<>> THEN <<>>
    ELSE LET items == FastCategoryItems(records, no_code_items, Head(categories))
         IN  (IF Len(items) < 2 THEN <<>>
              ELSE EmittedGroups(records, Grouped(records, items, <<>>)))
             \o DescriptionPass(records, no_code_items, Tail(categories))

\* FastMatcher.find_matches_fast: matches, with exact_matches, the number of
\* its groups that the code pass emitted, and the locals code_groups and
\* no_code_items
find_matches_fast(hospital_data) ==
    LET records == FastRecords(hospital_data)
        st == CodePass(records, 1, [code_groups |-> <<>>, no_code_items |-> <<>>])
        exact == EmittedGroups(records,
                               [g \in 1..Len(st.code_groups) |-> st.code_groups[g].items])
        described == DescriptionPass(records, st.no_code_items,
                                     FastCategoryOrder(records, st.no_code_items, <<>>))
    IN  [matches |-> exact \o described, exact_matches |-> Len(exact),
         desc_matches |-> Len(described),
         code_groups |-> st.code_groups, no_code_items |-> st.no_code_items]

\* raw items of the files FastMatcher reads
Aspirin == RawItem(<<"A", "s", "p", "i", "r", "i", "n">>, <<>>, <<<<"1", "0">>>>)
AspirinDot == RawItem(<<" ", "a", "s", "p", "i", "r", "i", "n", ".", " ">>, <<>>, <<<<"$", "1", "2">>>>)
KneeBrace == RawItem(<<"K", "n", "e", "e", " ", "b", "r", "a", "c", "e", ",", " ", "l", "a", "r", "g", "e">>, <<>>, <<<<"4", "0">>>>)
BraceKnee == RawItem(<<"l", "a", "r", "g", "e", " ", " ", "k", "n", "e", "e", "-", "b", "r", "a", "c", "e">>, <<>>, <<<<"0">>, <<"5", "0">>>>)
KneeBraceCoded == RawItem(<<"K", "n", "e", "e", " ", "b", "r", "a", "c", "e", ",", " ", "l", "a", "r", "g", "e">>, <<Code(<<"9">>, CPT)>>, <<<<"4", "5">>>>)
ArmSling == RawItem(<<"A", "r", "m", " ", "s", "l", "i", "n", "g">>, <<Code(<<"7">>, CPT), Code(<<"A", "1">>, HCPCS)>>, <<<<"2", "0">>>>)
SlingArm == RawItem(<<"a", "r", "m", " ", "s", "l", "i", "n", "g">>, <<Code(<<" ", "a", "1">>, <<"h", "c", "p", "c", "s">>), Code(<<"7">>, CPT)>>, <<<<"2", "5">>>>)
SlingOnly == RawItem(<<"S", "l", "i", "n", "g">>, <<Code(<<"7">>, CPT)>>, <<<<"3", "0">>>>)
ShortFast == RawItem(<<"C", "a", "s", "t">>, <<>>, <<<<"6", "0">>>>)
FreeFast == RawItem(<<"A", "s", "p", "i", "r", "i", "n">>, <<>>, <<<<"0">>>>)

\* the 'standard_charge_information' lists of the files FastMatcher reads
FastFiles ==
    { <<>>, <<Aspirin>>, <<KneeBrace, AspirinDot>>, <<BraceKnee, ArmSling>>,
      <<SlingArm, KneeBraceCoded>>, <<SlingOnly, ShortFast, FreeFast>> }

-----------------------------------------------------------------------------
(* Calls *)

Call(op, h, args, result) == [op |-> op, h |-> h, args |-> args, result |-> result]

HospitalKeys == Range(Hospitals)
Loaded == DOMAIN hospital_datasets

\* the number of raw items read so far
RECURSIVE SumOver(_, _)
SumOver(f, D) ==
    IF D = {} THEN 0 ELSE LET d == CHOOSE x \in D : TRUE IN f[d] + SumOver(f, D \ {d})
RawRead == SumOver(raw_pos, DOMAIN raw_pos)

\* dataset.add_item(item_data) on the dataset of hospital h, the caller having
\* set 'index' to the record's position in its input
Add(h, item) ==
    /\ LET item_data == [index |-> raw_pos[h]] @@ item
       IN  /\ hospital_datasets' =
                 [hospital_datasets EXCEPT ![h] = add_item(@, item_data)]
           /\ ret' = Call("add_item", h, item_data, None)
    /\ raw_pos' = [raw_pos EXCEPT ![h] = @ + 1]
    /\ UNCHANGED <<matcher, program>>

\* a caller enumerates its records and hands each to dataset.add_item unchecked
AddItem(h, item) ==
    /\ h \in Loaded
    /\ RawRead < MaxRaw
    /\ Add(h, item)

\* a caller stores a record with any price list in a dataset app.py loads
AddPricedItem(h, item) ==
    /\ h \in Loaded
    /\ RawRead < MaxPriced
    /\ Add(h, item)

\* one iteration of the loop of build_hospital_dataset(h) over raw item `item`
Build(h, item) ==
    /\ hospital_datasets' =
          [hospital_datasets EXCEPT ![h] = BuildStep(@, item, raw_pos[h])]
    /\ ret' = Call("build_hospital_dataset", h, item, None)
    /\ raw_pos' = [raw_pos EXCEPT ![h] = @ + 1]
    /\ UNCHANGED <<matcher, program>>

\* build_hospital_dataset(h) reads one more item of some file
BuildItem(h, item) ==
    /\ h \in Loaded
    /\ RawRead < MaxRaw
    /\ Build(h, item)

\* build_hospital_dataset(h) reads the next item of the file of hospital h
BuildFileItem(h) ==
    /\ program = "app"
    /\ h \in Loaded
    /\ raw_pos[h] < Len(HospitalFileItems[h])
    /\ Build(h, HospitalFileItems[h][raw_pos[h] + 1])

FindByCode(h, code_value, code_type) ==
    /\ h \in Loaded
    /\ ret' = Call("find_by_code", h, <<code_value, code_type>>,
                   find_by_code(hospital_datasets[h], code_value, code_type))
    /\ UNCHANGED <<hospital_datasets, raw_pos, matcher, program>>

FindByDescription(h, description) ==
    /\ h \in Loaded
    /\ ret' = Call("find_by_description", h, description,
                   find_by_description(hospital_datasets[h], description))
    /\ UNCHANGED <<hospital_datasets, raw_pos, matcher, program>>

\* the items at the positions of a set, in one of the set's iteration orders
ItemLists(items, indices) ==
    {[k \in 1..Len(order) |-> items[order[k] + 1]] : order \in Orderings(indices)}

SearchByKeywords(h, keywords) ==
    /\ h \in Loaded
    /\ LET r == search_by_keywords(hospital_datasets[h], keywords)
       IN  /\ \E result \in ItemLists(hospital_datasets[h].items, r.indices) :
                  ret' = Call("search_by_keywords", h, keywords, result)
           /\ hospital_datasets' = [hospital_datasets EXCEPT ![h] = r.ds]
    /\ UNCHANGED <<raw_pos, matcher, program>>

CountByCodeType(h, code_type) ==
    /\ h \in Loaded
    /\ ret' = Call("count_by_code_type", h, code_type,
                   count_by_code_type(hospital_datasets[h], code_type))
    /\ UNCHANGED <<hospital_datasets, raw_pos, matcher, program>>

GetAllCodesOfType(h, code_type) ==
    /\ h \in Loaded
    /\ ret' = Call("get_all_codes_of_type", h, code_type,
                   get_all_codes_of_type(hospital_datasets[h], code_type))
    /\ UNCHANGED <<hospital_datasets, raw_pos, matcher, program>>

GetStats(h) ==
    /\ h \in Loaded
    /\ ret' = Call("get_stats", h, None, get_stats(hospital_datasets[h]))
    /\ UNCHANGED <<hospital_datasets, raw_pos, matcher, program>>

\* hospital_datasets.items(): the loaded keys in the order of the hospitals list
IsLoaded(h) == h \in Loaded
LoadedOrder == SelectSeq(Hospitals, IsLoaded)

\* a choice of one list per key of `lists`, a function from keys to sets of lists
ListChoices(lists) ==
    {f \in [DOMAIN lists -> UNION {lists[k] : k \in DOMAIN lists}] :
        \A k \in DOMAIN lists : f[k] \in lists[k]}

\* list(group['description_samples']) of a group: the lists it can come out as
SampleLists(group) ==
    {[group EXCEPT !.description_samples = samples] :
        samples \in Orderings(group.description_samples)}

\* a call of find_cross_hospital_matches(search_term, max_results) made by the
\* operation op, which returns Report of what the call gave (each intermediate
\* value is bound once, as the only element of a set)
CrossHospitalCall(op, args, search_term, max_results, Report(_)) ==
    \E searched \in {[h \in Loaded |->
                        search_by_keywords(hospital_datasets[h], Str(search_term))]} :
    \E lists \in {[h \in Loaded |->
                     ItemLists(hospital_datasets[h].items, searched[h].indices)]} :
        /\ \E keyword_results \in ListChoices(lists) :
           \E hospital_results \in
                 {[k \in 1..Len(LoadedOrder) |->
                     [hospital_key |-> LoadedOrder[k],
                      items |-> HospitalResults(hospital_datasets[LoadedOrder[k]],
                                                search_term,
                                                keyword_results[LoadedOrder[k]],
                                                max_results)]]} :
           \E r \in {CrossHospitalGroups(hospital_results, max_results)} :
           \E samples \in {[k \in 1..Len(r.groups) |-> SampleLists(r.groups[k])]} :
           \E groups \in ListChoices(samples) :
               ret' = Call(op, "", args, Report([raised |-> r.raised, groups |-> groups]))
        /\ hospital_datasets' = [h \in Loaded |-> searched[h].ds]

\* what find_cross_hospital_matches returns: the groups, or the exception
Matches(r) == r

\* find_cross_hospital_matches(search_term, max_results)
FindCrossHospitalMatches(search_term, max_results) ==
    /\ program = "app"
    /\ CrossHospitalCall("find_cross_hospital_matches", <<search_term, max_results>>,
                         search_term, max_results, Matches)
    /\ UNCHANGED <<raw_pos, matcher, program>>

\* GET /api/procedures?search=..&limit=..; the rows of the SQL database the
\* handler falls back on when no dataset is loaded are not part of the model
GetProcedures(search_arg, limit) ==
    /\ program = "app"
    /\ LET search == Strip(search_arg)
       IN  IF search = <<>>
           THEN /\ ret' = Call("get_procedures", "", <<search_arg, limit>>,
                               [source |-> "none", raised |-> FALSE, results |-> <<>>])
                /\ UNCHANGED hospital_datasets
           ELSE IF Cardinality(Loaded) = 0
           THEN /\ ret' = Call("get_procedures", "", <<search_arg, limit>>,
                               [source |-> "database", raised |-> FALSE, results |-> <<>>])
                /\ UNCHANGED hospital_datasets
           ELSE CrossHospitalCall("get_procedures", <<search_arg, limit>>, search, limit,
                                  ProcedureResults)
    /\ UNCHANGED <<raw_pos, matcher, program>>

\* GET /api/pricing/match_..?search=..&code=..&code_type=..
GetPricingForMatch(search, code, code_type) ==
    /\ program = "app"
    /\ IF search = <<>>
       THEN /\ ret' = Call("get_pricing_for_match", "", <<search, code, code_type>>,
                           [status |-> 400, raised |-> FALSE])
            /\ UNCHANGED hospital_datasets
       ELSE CrossHospitalCall("get_pricing_for_match", <<search, code, code_type>>,
                              search, 100,
                              LAMBDA r : PricingResponse(r, code, code_type))
    /\ UNCHANGED <<raw_pos, matcher, program>>

\* run: one iteration of the loop of load_hospital_data over the file at hand
LoadItem(item) ==
    /\ program = "hash_matcher"
    /\ matcher.file <= Len(HospitalFiles)
    /\ matcher.read < MaxRaw
    /\ matcher' = LoadStep([matcher EXCEPT !.read = @ + 1, !.i = @ + 1], item,
                           HospitalFiles[matcher.file])
    /\ ret' = Call("load_hospital_data", "", item, None)
    /\ UNCHANGED <<hospital_datasets, raw_pos, program>>

\* run: load_hospital_data reaches the end of its file
EndFile ==
    /\ program = "hash_matcher"
    /\ matcher.file <= Len(HospitalFiles)
    /\ matcher' = [matcher EXCEPT
                      !.hospital_data =
                          Append(@, [hospital |-> HospitalFiles[matcher.file],
                                     items |-> matcher.processed_items]),
                      !.processed_items = <<>>, !.i = 0, !.file = @ + 1]
    /\ ret' = Call("load_hospital_data", "", None, None)
    /\ UNCHANGED <<hospital_datasets, raw_pos, program>>

\* run: the file of load_hospital_data does not exist
MissingFile ==
    /\ program = "hash_matcher"
    /\ matcher.file <= Len(HospitalFiles)
    /\ matcher.i = 0
    /\ matcher' = [matcher EXCEPT !.file = @ + 1]
    /\ ret' = Call("load_hospital_data", "", None, None)
    /\ UNCHANGED <<hospital_datasets, raw_pos, program>>

\* HashMatcher.find_code_matches()
FindCodeMatches ==
    /\ program = "hash_matcher"
    /\ ret' = Call("find_code_matches", "", None, find_code_matches(matcher))
    /\ UNCHANGED <<hospital_datasets, raw_pos, matcher, program>>

\* normalize_ndc(ndc_code) on an input
NormalizeNdc ==
    /\ ret.op = "input"
    /\ ret' = Call("normalize_ndc", "", ret.args, normalize_ndc(ret.args))
    /\ UNCHANGED <<hospital_datasets, raw_pos, matcher, program>>

\* normalize_ndc on a result of normalize_ndc
NormalizeNdcAgain ==
    /\ ret.op = "normalize_ndc"
    /\ ret.result # None
    /\ ret' = Call("normalize_ndc_again", "", ret.result, normalize_ndc(ret.result))
    /\ UNCHANGED <<hospital_datasets, raw_pos, matcher, program>>

\* HashMatcher.normalize_code(code, 'NDC') on an input
NormalizeCodeNdc ==
    /\ ret.op = "input"
    /\ ret' = Call("normalize_code", "", ret.args, normalize_code(ret.args, NDC))
    /\ UNCHANGED <<hospital_datasets, raw_pos, matcher, program>>

\* the match key find_cross_hospital_matches gives an NDC code
NdcMatchKey ==
    /\ ret.op = "input"
    /\ ret' = Call("match_key", "", ret.args, MatchKey(Code(ret.args, NDC)))
    /\ UNCHANGED <<hospital_datasets, raw_pos, matcher, program>>

\* run_improved_matching: hospital_files, by hospital name
ImprovedHospitalFiles ==
    <<"UCSF Medical Center", "Stanford Health Care", "UCLA Health",
      "Cedars-Sinai Medical Center">>

\* run_improved_matching: load_hospital_data(file_path, hospital_name) on the
\* next file of hospital_files
LoadHospitalData(items) ==
    /\ program = "improved_matcher"
    /\ matcher.file <= Len(ImprovedHospitalFiles)
    /\ matcher' = [load_hospital_data(matcher, items, ImprovedHospitalFiles[matcher.file])
                      EXCEPT !.file = @ + 1]
    /\ ret' = Call("load_hospital_data", "", items, None)
    /\ UNCHANGED <<hospital_datasets, raw_pos, program>>

\* run_improved_matching: the file of load_hospital_data does not exist
LoadMissingFile ==
    /\ program = "improved_matcher"
    /\ matcher.file <= Len(ImprovedHospitalFiles)
    /\ matcher' = [matcher EXCEPT !.file = @ + 1]
    /\ ret' = Call("load_hospital_data", "", None, None)
    /\ UNCHANGED <<hospital_datasets, raw_pos, program>>

\* create_improved_database: matches = self.find_matches(), after the loads of
\* run_improved_matching
FindMatches ==
    /\ program = "improved_matcher"
    /\ matcher.file > Len(ImprovedHospitalFiles)
    /\ ret' = Call("find_matches", "", None, find_matches(matcher.all_items))
    /\ UNCHANGED <<hospital_datasets, raw_pos, matcher, program>>

\* find_matches, lines 252-257, on an item and an other_item with the given
\* code_information
CodeOverlap ==
    /\ ret.op = "input"
    /\ ret' = Call("code_overlap", "", ret.args,
                   code_overlap([codes |-> extract_all_codes(ret.args[1])],
                                [codes |-> extract_all_codes(ret.args[2])]))
    /\ UNCHANGED <<hospital_datasets, raw_pos, matcher, program>>

\* build_ucsf.py, build_ucla.py, build_cedars.py: the one call
\* dataset = build_hospital_dataset(hospital_key) of a run, on a file with the
\* given raw items; raw_pos keeps the number of items of the file
BuildHospitalDataset(h, items) ==
    /\ program = "hospital_dataset_builder"
    /\ raw_pos = EmptyDict
    /\ Len(items) <= MaxFileItems
    /\ \E r \in {build_hospital_dataset(h, items)} :
          /\ hospital_datasets' =
                IF r.raised THEN hospital_datasets
                ELSE [k \in Loaded \cup {h} |->
                        IF k = h THEN r.dataset ELSE hospital_datasets[k]]
          /\ ret' = Call("build_file", h, items, [raised |-> r.raised])
    /\ raw_pos' = [k \in DOMAIN raw_pos \cup {h} |->
                      IF k = h THEN Len(items) ELSE raw_pos[k]]
    /\ UNCHANGED <<matcher, program>>

\* run: load_hospital_data(file_path, hospital_name) on the next file of
\* hospital_files, holding the given raw items
LoadFile(items) ==
    /\ program = "hash_matcher"
    /\ matcher.file <= Len(HospitalFiles)
    /\ matcher.read + Len(items) <= MaxFileItems
    /\ matcher' = [HashMatcher_load_hospital_data(matcher, items,
                                                  HospitalFiles[matcher.file])
                      EXCEPT !.file = @ + 1, !.read = @ + Len(items)]
    /\ ret' = Call("load_file", HospitalFiles[matcher.file], items, None)
    /\ UNCHANGED <<hospital_datasets, raw_pos, program>>

\* FastMatcher.run: the hospital names of hospital_files, in order
FastHospitalFiles ==
    <<"UCSF Medical Center", "Stanford Health Care", "UCLA Health",
      "Cedars-Sinai Medical Center">>

\* FastMatcher.run: load_hospital_data on the next file, which holds `items`
FastLoadHospitalData(items) ==
    /\ program = "fast_matcher"
    /\ matcher.file <= Len(FastHospitalFiles)
    /\ matcher' = [FastMatcher_load_hospital_data(matcher, items,
                                                  FastHospitalFiles[matcher.file])
                      EXCEPT !.file = @ + 1]
    /\ ret' = Call("load_hospital_data", "", items, None)
    /\ UNCHANGED <<hospital_datasets, raw_pos, program>>

\* FastMatcher.run: the file of load_hospital_data does not exist
FastLoadMissingFile ==
    /\ program = "fast_matcher"
    /\ matcher.file <= Len(FastHospitalFiles)
    /\ matcher' = [matcher EXCEPT !.file = @ + 1]
    /\ ret' = Call("load_hospital_data", "", None, None)
    /\ UNCHANGED <<hospital_datasets, raw_pos, program>>

\* create_database: matches = self.find_matches_fast(), after the loads of run
FindMatchesFast ==
    /\ program = "fast_matcher"
    /\ matcher.file > Len(FastHospitalFiles)
    /\ ret' = Call("find_matches_fast", "", None, find_matches_fast(matcher.hospital_data))
    /\ UNCHANGED <<hospital_datasets, raw_pos, matcher, program>>

\* the descriptions handed to the similarity tests on their own
DescriptionAlphabet == {"b", "C", " "}
Descriptions == UNION {[1..n -> DescriptionAlphabet] : n \in 0..MaxDescLen}

\* ImprovedMatcher.find_matches, lines 234 and 249: similarity_score on the
\* descriptions of two records
SimilarityScore ==
    /\ program = "improved_matcher"
    /\ ret.op = "input"
    /\ ret' = Call("similarity_score", "", ret.args,
                   similarity_score(ret.args[1], ret.args[2]))
    /\ UNCHANGED <<hospital_datasets, raw_pos, matcher, program>>

\* FastMatcher.find_matches_fast, line 242: description_similarity on the
\* normalized_desc of two records
DescriptionSimilarity ==
    /\ program = "fast_matcher"
    /\ ret.op = "input"
    /\ ret' = Call("description_similarity", "", ret.args,
                   description_similarity(normalize_description(ret.args[1]),
                                          normalize_description(ret.args[2])))
    /\ UNCHANGED <<hospital_datasets, raw_pos, matcher, program>>

-----------------------------------------------------------------------------
(* The HospitalDataset class, used on its own: one dataset *)

InitDataset ==
    /\ hospital_datasets = ("stanford" :> NewDataset(HOSPITAL_NAMES["stanford"]))
    /\ raw_pos = ("stanford" :> 0)
    /\ matcher = NewMatcher
    /\ program = "hospital_dataset_builder"
    /\ ret = Call("init", "", None, None)

NextDataset ==
    \/ \E h \in HospitalKeys, item \in DirectItems : AddItem(h, item)
    \/ \E h \in HospitalKeys, item \in RawItems : BuildItem(h, item)
    \/ \E h \in HospitalKeys, c \in QueryCodes, t \in QueryTypes : FindByCode(h, c, t)
    \/ \E h \in HospitalKeys, d \in QueryDescriptions : FindByDescription(h, d)
    \/ \E h \in HospitalKeys, k \in QueryKeywords : SearchByKeywords(h, k)
    \/ \E h \in HospitalKeys, t \in QueryTypes \ {None} : CountByCodeType(h, t)
    \/ \E h \in HospitalKeys, t \in QueryTypes \ {None} : GetAllCodesOfType(h, t)
    \/ \E h \in HospitalKeys : GetStats(h)

SpecDataset == InitDataset /\ [][NextDataset]_vars

-----------------------------------------------------------------------------
(* app.py over the datasets built by build_hospital_dataset, and the run of
   hash_matcher.py *)

Init ==
    /\ program \in {"app", "hash_matcher"}
    /\ \E L \in SUBSET HospitalKeys :
          /\ hospital_datasets = [h \in L |-> NewDataset(HOSPITAL_NAMES[h])]
          /\ raw_pos = [h \in L |-> 0]
          /\ program = "hash_matcher" => L = {}
    /\ matcher = NewMatcher
    /\ ret = Call("init", "", None, None)

Next ==
    \/ \E h \in HospitalKeys : BuildFileItem(h)
    \/ \E search_term \in SearchTerms, max_results \in MaxResultsArgs :
          FindCrossHospitalMatches(search_term, max_results)
    \/ \E search \in SearchArgs, limit \in MaxResultsArgs : GetProcedures(search, limit)
    \/ \E q \in PricingRequests : GetPricingForMatch(q[1], q[2], q[3])
    \/ \E item \in HashRawItems : LoadItem(item)
    \/ EndFile
    \/ MissingFile
    \/ FindCodeMatches

Spec == Init /\ [][Next]_vars

-----------------------------------------------------------------------------
(* app.py over datasets filled through add_item directly *)

InitDirect ==
    /\ hospital_datasets = [h \in DirectHospitals |-> NewDataset(HOSPITAL_NAMES[h])]
    /\ raw_pos = [h \in DirectHospitals |-> 0]
    /\ matcher = NewMatcher
    /\ program = "app"
    /\ ret = Call("init", "", None, None)

NextDirect ==
    \/ \E h \in HospitalKeys, item \in PricedItems : AddPricedItem(h, item)
    \/ FindCrossHospitalMatches(ScanTerm, 50)
    \/ \E limit \in ScanLimits : GetProcedures(ScanTerm, limit)
    \/ GetPricingForMatch(ScanTerm, <<"7">>, CPT)

SpecDirect == InitDirect /\ [][NextDirect]_vars

-----------------------------------------------------------------------------
(* Scenario: three hospitals, each built from a file of one record that carries
   the same NDC in its own spelling *)

InitScenario ==
    /\ \E files \in [HospitalKeys -> NdcSpellings \X ScenarioCharges] :
       \E L \in SUBSET HospitalKeys :
          /\ Cardinality(L) = 3
          /\ \A h1, h2 \in L : h1 # h2 => /\ files[h1][1] # files[h2][1]
                                            /\ files[h1][2] # files[h2][2]
          /\ \A h \in HospitalKeys \ L : files[h] = files[CHOOSE x \in L : TRUE]
          /\ hospital_datasets =
                [h \in L |-> BuildStep(NewDataset(HOSPITAL_NAMES[h]),
                                       ScenarioRecord(files[h][1], files[h][2]), 0)]
          /\ raw_pos = [h \in L |-> 1]
    /\ matcher = NewMatcher
    /\ program = "app"
    /\ ret = Call("init", "", None, None)

NextScenario ==
    \/ \E search_term \in SearchTerms, max_results \in MaxResultsArgs :
          FindCrossHospitalMatches(search_term, max_results)
    \/ \E search \in SearchArgs, limit \in MaxResultsArgs : GetProcedures(search, limit)

SpecScenario == InitScenario /\ [][NextScenario]_vars

-----------------------------------------------------------------------------
(* normalize_ndc on its own *)

InitNdc ==
    /\ hospital_datasets = EmptyDict
    /\ raw_pos = EmptyDict
    /\ matcher = NewMatcher
    /\ program = "app"
    /\ \E ndc_code \in NdcInputs : ret = Call("input", "", ndc_code, None)

NextNdc == NormalizeNdc \/ NormalizeNdcAgain \/ NdcMatchKey \/ NormalizeCodeNdc

SpecNdc == InitNdc /\ [][NextNdc]_vars

-----------------------------------------------------------------------------
(* The run of improved_matcher.py *)

InitImproved ==
    /\ hospital_datasets = EmptyDict
    /\ raw_pos = EmptyDict
    /\ matcher = NewImprovedMatcher
    /\ program = "improved_matcher"
    /\ ret = Call("init", "", None, None)

NextImproved ==
    \/ \E items \in ImprovedFiles : LoadHospitalData(items)
    \/ LoadMissingFile
    \/ FindMatches

SpecImproved == InitImproved /\ [][NextImproved]_vars

-----------------------------------------------------------------------------
(* The code overlap test of ImprovedMatcher.find_matches on its own *)

InitOverlap ==
    /\ hospital_datasets = EmptyDict
    /\ raw_pos = EmptyDict
    /\ matcher = NewImprovedMatcher
    /\ program = "improved_matcher"
    /\ \E item_codes \in OverlapCodeLists, other_codes \in OverlapCodeLists :
          ret = Call("input", "", <<item_codes, other_codes>>, None)

NextOverlap == CodeOverlap

SpecOverlap == InitOverlap /\ [][NextOverlap]_vars

-----------------------------------------------------------------------------
(* build_hospital_dataset and HashMatcher.load_hospital_data over whole files *)

InitFiles ==
    /\ program \in {"hospital_dataset_builder", "hash_matcher"}
    /\ hospital_datasets = EmptyDict
    /\ raw_pos = EmptyDict
    /\ matcher = NewMatcher
    /\ ret = Call("init", "", None, None)

NextFiles ==
    \/ \E h \in HospitalKeys, items \in WholeFiles : BuildHospitalDataset(h, items)
    \/ \E items \in WholeFiles : LoadFile(items)

SpecFiles == InitFiles /\ [][NextFiles]_vars

-----------------------------------------------------------------------------
(* The run of fast_matcher.py *)

InitFast ==
    /\ hospital_datasets = EmptyDict
    /\ raw_pos = EmptyDict
    /\ matcher = NewFastMatcher
    /\ program = "fast_matcher"
    /\ ret = Call("init", "", None, None)

NextFast ==
    \/ \E items \in FastFiles : FastLoadHospitalData(items)
    \/ FastLoadMissingFile
    \/ FindMatchesFast

SpecFast == InitFast /\ [][NextFast]_vars

-----------------------------------------------------------------------------
(* The similarity tests of ImprovedMatcher and FastMatcher on their own *)

InitSimilarity ==
    /\ hospital_datasets = EmptyDict
    /\ raw_pos = EmptyDict
    /\ program \in {"improved_matcher", "fast_matcher"}
    /\ matcher = IF program = "fast_matcher" THEN NewFastMatcher ELSE NewImprovedMatcher
    /\ \E desc1 \in Descriptions, desc2 \in Descriptions :
          ret = Call("input", "", <<desc1, desc2>>, None)

NextSimilarity ==
    \/ SimilarityScore
    \/ DescriptionSimilarity

SpecSimilarity == InitSimilarity /\ [][NextSimilarity]_vars

-----------------------------------------------------------------------------
(* Properties of find_cross_hospital_matches and find_code_matches *)

\* the hospitals that hold a member of a group of find_cross_hospital_matches
GroupSources(group) ==
    {group.hospitals[k].hospital_key :
        k \in {j \in 1..Len(group.hospitals) : group.hospitals[j].items # <<>>}}

\* the hospitals that hold a member of a match of find_code_matches
MatchSources(match) == {match.items[k].hospital : k \in 1..Len(match.items)}

\* the hospitals HashMatcher has loaded an item of
MatcherSources ==
    UNION {MatchSources(matcher.code_to_items[k]) : k \in 1..Len(matcher.code_to_items)}

-----------------------------------------------------------------------------
(* Properties of normalize_ndc *)

\* digits left-padded with zeros to 11 characters
PadTo11(digits) ==
    [i \in 1..11 |-> IF i <= 11 - Len(digits) THEN "0" ELSE digits[i - (11 - Len(digits))]]

\* the digits of s, in order
DigitsOf(s) == SelectSeq(s, IsDigit)

C11_NdcKeyValidity ==
    ret.op = "normalize_code" =>
        /\ (ret.result # <<>>) <=> (Len(DigitsOf(ret.args)) \in 9..11)
        /\ \A w \in NdcInputs :
              (Len(DigitsOf(ret.args)) \in 9..11 /\ Len(DigitsOf(w)) \in 9..11) =>
                 ((normalize_code(w, NDC) = ret.result)
                    <=> (PadTo11(DigitsOf(w)) = PadTo11(DigitsOf(ret.args))))

\* the items HashMatcher has loaded: those of the files read to their end and
\* those of the file being read
LoadedItems ==
    Range(matcher.processed_items)
    \cup UNION {Range(matcher.hospital_data[k].items) :
                   k \in 1..Len(matcher.hospital_data)}

\* the normalized code keys an item of HashMatcher carries
KeysOf(item) == {item.normalized_codes[k][3] : k \in 1..Len(item.normalized_codes)}

\* the hospitals that loaded an item carrying the normalized code key
KeySources(key) == {item.hospital : item \in {x \in LoadedItems : key \in KeysOf(x)}}

\* the members of the groups find_cross_hospital_matches returned, as
\* <<hospital_key, item>>
GroupMembers(group) ==
    UNION {{<<group.hospitals[k].hospital_key, group.hospitals[k].items[j].item>> :
              j \in 1..Len(group.hospitals[k].items)} : k \in 1..Len(group.hospitals)}

\* the match keys a record of a dataset carries
MatchKeysOf(item) == {MatchKey(item.codes[k]) : k \in 1..Len(item.codes)} \ {None}

\* C12: find_code_matches emits exactly one match for every normalized code
\* key whose loaded items come from at least 2 hospitals, with every hospital
\* holding an item under the key as a member, and no match for another key;
\* a record with several keys is a member of the group of each of them, in
\* find_code_matches and in the groups of find_cross_hospital_matches.
C12_CodePassComplete ==
    /\ ret.op = "find_code_matches" =>
          /\ \A key \in UNION {KeysOf(item) : item \in LoadedItems} :
                LET matches == {k \in 1..Len(ret.result) : ret.result[k].code = key}
                IN  IF Cardinality(KeySources(key)) >= 2
                    THEN /\ Cardinality(matches) = 1
                         /\ \A k \in matches : MatchSources(ret.result[k]) = KeySources(key)
                    ELSE matches = {}
          /\ \A k \in 1..Len(ret.result) :
                ret.result[k].code \in UNION {KeysOf(item) : item \in LoadedItems}
    /\ ret.op = "find_cross_hospital_matches" =>
          LET groups == ret.result.groups
              members == UNION {GroupMembers(groups[k]) : k \in 1..Len(groups)}
          IN  /\ \A m \in members : \A key \in MatchKeysOf(m[2]) :
                    \A k \in 1..Len(groups) :
                       groups[k].match_key = key => m \in GroupMembers(groups[k])
              /\ \A m1 \in members, m2 \in members :
                    (m1[1] # m2[1] /\ ret.args[2] = 50) =>
                       \A key \in MatchKeysOf(m1[2]) \cap MatchKeysOf(m2[2]) :
                          \E k \in 1..Len(groups) : groups[k].match_key = key

\* find_code_matches returned two matches that share a member record
C12_Witness ==
    /\ ret.op = "find_code_matches"
    /\ \E k1, k2 \in 1..Len(ret.result) :
          /\ k1 # k2
          /\ \E item \in Range(ret.result[k1].items) : item \in Range(ret.result[k2].items)

-----------------------------------------------------------------------------
(* Properties of the price aggregation *)

\* the strictly positive amounts among the price entries of a record
PositivePrices(item) ==
    {x \in {item.prices[k].gross_charge : k \in 1..Len(item.prices)} : x > 0}

MinOf(S) == CHOOSE x \in S : \A y \in S : x <= y
MaxOf(S) == CHOOSE x \in S : \A y \in S : x >= y

\* the best prices of the hospitals of a group: for each hospital with a
\* positive price, the lowest positive price among all its member records
HospitalBests(group) ==
    LET positive(k) == UNION {PositivePrices(group.hospitals[k].items[j].item) :
                                 j \in 1..Len(group.hospitals[k].items)}
    IN  {MinOf(positive(k)) : k \in {j \in 1..Len(group.hospitals) : positive(j) # {}}}

\* C13: min_price and max_price of every group find_cross_hospital_matches
\* returns are the minimum and the maximum of the best prices of its hospitals,
\* and the max of the price range get_procedures reports is at most the
\* largest hospital price it reports for the group.
C13_RangeOfHospitalBests ==
    /\ (ret.op = "find_cross_hospital_matches" /\ ~ret.result.raised) =>
          \A k \in 1..Len(ret.result.groups) :
             LET group == ret.result.groups[k]
             IN  HospitalBests(group) # {} =>
                    /\ group.min_price = MinOf(HospitalBests(group))
                    /\ group.max_price = MaxOf(HospitalBests(group))
    /\ (ret.op = "get_procedures" /\ ~ret.result.raised) =>
          \A k \in 1..Len(ret.result.results) :
             LET result == ret.result.results[k]
             IN  \A h \in 1..Len(result.hospitals) :
                    result.hospitals[h].price > 0 =>
                       \E g \in 1..Len(result.hospitals) :
                          result.price_range.max <= result.hospitals[g].price

\* the positive prices of the member records of hospital entry k of a group
MemberPositives(group, k) ==
    UNION {PositivePrices(group.hospitals[k].items[j].item) :
              j \in 1..Len(group.hospitals[k].items)}

\* C14: the price find_cross_hospital_matches records for a member record is
\* the least strictly positive gross_charge of the record (never a zero or
\* negative amount), and the price get_procedures reports for a hospital is
\* the least strictly positive price of the hospital's member records, 0 only
\* when it has none.
C14_BestPriceIsLeastPositive ==
    /\ (ret.op = "find_cross_hospital_matches" /\ ~ret.result.raised) =>
          \A g \in 1..Len(ret.result.groups) :
             LET group == ret.result.groups[g]
                 reported == HospitalPrices(group)
             IN  /\ \A k \in 1..Len(group.hospitals) :
                       \A j \in 1..Len(group.hospitals[k].items) :
                          LET member == group.hospitals[k].items[j]
                          IN  IF PositivePrices(member.item) # {}
                              THEN member.price = MinOf(PositivePrices(member.item))
                              ELSE member.price = 0
                 /\ \A k \in 1..Len(group.hospitals) :
                       \E i \in 1..Len(reported) :
                          /\ reported[i].hospital_key = group.hospitals[k].hospital_key
                          /\ reported[i].price =
                                IF MemberPositives(group, k) # {}
                                THEN MinOf(MemberPositives(group, k)) ELSE 0
    /\ (ret.op = "get_procedures" /\ ~ret.result.raised) =>
          \A k \in 1..Len(ret.result.results) :
             \A h \in 1..Len(ret.result.results[k].hospitals) :
                ret.result.results[k].hospitals[h].price >= 0

\* a group was returned in which a hospital has two member records, one of
\* them with a zero amount next to its positive one
C14_Witness ==
    /\ ret.op = "find_cross_hospital_matches"
    /\ ~ret.result.raised
    /\ \E g \in 1..Len(ret.result.groups) :
          \E k \in 1..Len(ret.result.groups[g].hospitals) :
             LET items == ret.result.groups[g].hospitals[k].items
             IN  /\ Len(items) >= 2
                 /\ \E j \in 1..Len(items) :
                       /\ items[j].price > 0
                       /\ \E p \in 1..Len(items[j].item.prices) :
                             items[j].item.prices[p].gross_charge <= 0

\* no member record of the group has a strictly positive price
NoPositivePrice(group) ==
    \A k \in 1..Len(group.hospitals) : MemberPositives(group, k) = {}

\* C15: find_cross_hospital_matches and get_pricing_for_match never raise, also
\* over records whose price lists hold no positive amount, and a group none of
\* whose member records has a positive price is reported with min_price =
\* max_price = price_spread = price_spread_percent = 0.
C15_NoPositivePriceGivesZeros ==
    /\ ret.op = "find_cross_hospital_matches" =>
          /\ ~ret.result.raised
          /\ \A g \in 1..Len(ret.result.groups) :
                LET group == ret.result.groups[g]
                IN  NoPositivePrice(group) =>
                       /\ group.min_price = 0 /\ group.max_price = 0
                       /\ group.price_spread = 0
                       /\ group.price_spread_percent.num = 0
    /\ ret.op = "get_pricing_for_match" =>
          /\ ~ret.result.raised
          /\ (ret.result.status = 200
                 /\ \A k \in 1..Len(ret.result.pricing_by_hospital) :
                       ret.result.pricing_by_hospital[k].pricing.best_price = 0) =>
                /\ ret.result.price_analysis.min_price = 0
                /\ ret.result.price_analysis.max_price = 0
                /\ ret.result.price_analysis.price_spread = 0
                /\ ret.result.price_analysis.savings_percent.num = 0

\* C16: for every group find_cross_hospital_matches returns, min_price <=
\* max_price, price_spread = max_price - min_price, price_spread_percent =
\* 100 * price_spread / min_price when min_price > 0 and 0 otherwise, and
\* neither price_spread nor price_spread_percent is negative or infinite.
C16_SpreadWellFormed ==
    (ret.op = "find_cross_hospital_matches" /\ ~ret.result.raised) =>
        \A g \in 1..Len(ret.result.groups) :
           LET group == ret.result.groups[g]
               percent == group.price_spread_percent
           IN  /\ group.min_price <= group.max_price
               /\ group.max_price < INF
               /\ group.price_spread = group.max_price - group.min_price
               /\ group.price_spread >= 0
               /\ percent.den > 0 /\ percent.num >= 0
               /\ IF group.min_price > 0
                  THEN percent.num * group.min_price
                          = 100 * group.price_spread * percent.den
                  ELSE percent.num = 0

\* a group with a positive spread was returned
C16_Witness ==
    /\ ret.op = "find_cross_hospital_matches"
    /\ ~ret.result.raised
    /\ \E g \in 1..Len(ret.result.groups) :
          /\ ret.result.groups[g].min_price > 0
          /\ ret.result.groups[g].price_spread > 0

\* the keys of the hospitals of a row of get_procedures, respectively of a
\* response of get_pricing_for_match
ListedHospitals(row) == {row.hospitals[k].hospital_key : k \in 1..Len(row.hospitals)}
DetailedHospitals(detail) ==
    {detail.pricing_by_hospital[k].hospital.key : k \in 1..Len(detail.pricing_by_hospital)}

\* the response of get_pricing_for_match is the group of a row of get_procedures
SameGroup(row, detail) ==
    /\ detail.status = 200
    /\ DetailedHospitals(detail) = ListedHospitals(row)
    /\ detail.price_analysis.min_price = row.price_range.min
    /\ detail.price_analysis.max_price = row.price_range.max

\* a request GET /api/procedures that returned rows is followed by the request
\* GET /api/pricing/match_.. with the same search term (test_integration.py)
DetailFollowsSearch ==
    /\ ret.op = "get_procedures"
    /\ ret.result.source = "datasets"
    /\ ~ret.result.raised
    /\ ret'.op = "get_pricing_for_match"
    /\ ret'.args[1] = Strip(ret.args[1])

\* C26: every row get_procedures(search, limit) returns can be fetched by
\* get_pricing_for_match with the same search term and the code and code_type
\* of the row: the response is 200 and shows the same group, that is the same
\* member hospitals and the same min and max price.
C26_SearchDetailRoundTrip ==
    [][DetailFollowsSearch =>
          \A i \in 1..Len(ret.result.results) :
             (/\ ret'.args[2] = ret.result.results[i].code
              /\ ret'.args[3] = ret.result.results[i].code_type)
                => SameGroup(ret.result.results[i], ret'.result)]_vars

\* C26 for the requests whose limit cuts no hospital's records
C26_RoundTripUncut ==
    [][(DetailFollowsSearch
          /\ \A h \in Loaded : Len(hospital_datasets[h].items) <= ret.args[2]) =>
          \A i \in 1..Len(ret.result.results) :
             (/\ ret'.args[2] = ret.result.results[i].code
              /\ ret'.args[3] = ret.result.results[i].code_type)
                => (ret'.result.status = 200 =>
                       SameGroup(ret.result.results[i], ret'.result))]_vars

-----------------------------------------------------------------------------
(* Properties of the search step of find_cross_hospital_matches *)

\* what a list of groups says: the match key, the member hospitals, the
\* reported code and the price range of each group
GroupSummaries(groups) ==
    {[match_key |-> groups[k].match_key, hospitals |-> GroupSources(groups[k]),
      code |-> groups[k].code, min_price |-> groups[k].min_price,
      max_price |-> groups[k].max_price] : k \in 1..Len(groups)}

\* the groups find_cross_hospital_matches(search_term, max_results) returns
\* when the search_by_keywords calls list their records as keyword_results
GroupsFor(search_term, max_results, keyword_results) ==
    CrossHospitalGroups(
        [k \in 1..Len(LoadedOrder) |->
            [hospital_key |-> LoadedOrder[k],
             items |-> HospitalResults(hospital_datasets[LoadedOrder[k]], search_term,
                                       keyword_results[LoadedOrder[k]], max_results)]],
        max_results).groups

\* the lists search_by_keywords(search_term) can return, per loaded hospital
KeywordLists(search_term) ==
    [h \in Loaded |->
        ItemLists(hospital_datasets[h].items,
                  search_by_keywords(hospital_datasets[h], Str(search_term)).indices)]

\* C17: the groups find_cross_hospital_matches returns (match keys, member
\* hospitals, reported code, min and max price) are the same for every order
\* in which search_by_keywords lists the matching records of each dataset, and
\* are those of the full result sets: cutting a hospital's records to
\* max_results before grouping loses and changes no group.
C17_GroupsIndependentOfOrder ==
    (ret.op = "find_cross_hospital_matches" /\ ~ret.result.raised) =>
        /\ \A keyword_results \in ListChoices(KeywordLists(ret.args[1])) :
              GroupSummaries(GroupsFor(ret.args[1], ret.args[2], keyword_results))
                 = GroupSummaries(ret.result.groups)
        /\ \A keyword_results \in ListChoices(KeywordLists(ret.args[1])) :
              GroupSummaries(Take(GroupsFor(ret.args[1], 2 * RawRead + 1,
                                            keyword_results), ret.args[2]))
                 = GroupSummaries(ret.result.groups)

\* the search terms that match the record of every hospital of the scenario
MatchesAll(search_term) ==
    /\ search_term # <<>>
    /\ \A h \in Loaded : \A k \in 1..Len(hospital_datasets[h].items) :
          Range(Split(Lower(search_term)))
             \subseteq Range(FindAllWords(Lower(hospital_datasets[h].items[k].description)))

\* C18: three hospitals hold one record each with the NDC 0002-8315-01 in its
\* own spelling and the prices 100, 150 and 90; for a search term matching all
\* three, find_cross_hospital_matches returns exactly one group, of 3
\* hospitals, with min_price 90, max_price 150, price_spread 60 and
\* price_spread_percent 6000/90.
C18_ScenarioOneGroup ==
    (ret.op = "find_cross_hospital_matches" /\ MatchesAll(ret.args[1])) =>
        /\ ~ret.result.raised
        /\ Len(ret.result.groups) = 1
        /\ LET group == ret.result.groups[1]
           IN  /\ group.hospital_count = 3
               /\ GroupSources(group) = Loaded
               /\ group.match_key = <<"N", "D", "C", ":", "0", "0", "0", "0", "2", "8", "3", "1", "5", "0", "1">>
               /\ group.min_price = 90 /\ group.max_price = 150
               /\ group.price_spread = 60
               /\ group.price_spread_percent.num * 90
                     = 6000 * group.price_spread_percent.den

\* the search found the three records, whose codes are spelled differently
C18_Witness ==
    /\ ret.op = "find_cross_hospital_matches"
    /\ MatchesAll(ret.args[1])
    /\ Cardinality(Loaded) = 3
    /\ ret.result.groups # <<>>
    /\ Cardinality({hospital_datasets[h].items[1].codes[1].code : h \in Loaded}) = 3

-----------------------------------------------------------------------------
(* Properties of ImprovedMatcher.find_matches *)

\* the groups a call of find_matches returned, as positions in all_items, the
\* seed first
FuzzyGroups ==
    IF ret.op = "find_matches" /\ ~ret.result.raised THEN ret.result.desc_groups
    ELSE <<>>

\* the records of another hospital in the category of the record at seed
OtherHospitalSameCategory(seed) ==
    {o \in 1..Len(matcher.all_items) :
        /\ matcher.all_items[o].hospital # matcher.all_items[seed].hospital
        /\ matcher.all_items[o].category = matcher.all_items[seed].category}

\* the description similarity of two records, as a fraction
DescSimilarity(seed, o) ==
    similarity_score(matcher.all_items[seed].normalized_desc,
                     matcher.all_items[o].normalized_desc)

\* the two records have a normalized code in common
CodesOverlap(seed, o) ==
    \E i \in 1..Len(matcher.all_items[seed].codes) :
    \E j \in 1..Len(matcher.all_items[o].codes) :
        ImprovedMatcher_normalize_code(matcher.all_items[seed].codes[i][1])
            = ImprovedMatcher_normalize_code(matcher.all_items[o].codes[j][1])

\* the fraction is at least 0.8, exactly 0.8, more than 0.8
AtLeastEightTenths(score) == 2 * score.matches * 5 >= 4 * score.length
ExactlyEightTenths(score) == 2 * score.matches * 5 = 4 * score.length
AboveEightTenths(score) == 2 * score.matches * 5 > 4 * score.length

\* C19 as stated: a record of another hospital in the seed's category is in the
\* seed's group if and only if its description similarity to the seed is
\* >= 0.8 or the two records' codes overlap, a similarity of exactly 0.8
\* included.
C19_IncludedAtThreshold ==
    \A g \in 1..Len(FuzzyGroups) :
        \A o \in OtherHospitalSameCategory(FuzzyGroups[g][1]) :
            o \in Range(FuzzyGroups[g])
                <=> \/ AtLeastEightTenths(DescSimilarity(FuzzyGroups[g][1], o))
                    \/ CodesOverlap(FuzzyGroups[g][1], o)

\* C19 as amended: a record of another hospital in the seed's category is in
\* the seed's group if and only if its description similarity to the seed is
\* strictly above 0.8 or the two records' codes overlap; a record at exactly
\* 0.8 without code overlap is left out.
C19_IncludedAboveThreshold ==
    \A g \in 1..Len(FuzzyGroups) :
        \A o \in OtherHospitalSameCategory(FuzzyGroups[g][1]) :
            /\ o \in Range(FuzzyGroups[g])
                  <=> \/ AboveEightTenths(DescSimilarity(FuzzyGroups[g][1], o))
                      \/ CodesOverlap(FuzzyGroups[g][1], o)
            /\ (/\ ExactlyEightTenths(DescSimilarity(FuzzyGroups[g][1], o))
                /\ ~CodesOverlap(FuzzyGroups[g][1], o))
                  => o \notin Range(FuzzyGroups[g])

\* a returned group whose seed met a record at exactly 0.8 without code overlap
\* (left out), a record above 0.8 without code overlap (included) and a record
\* at or below 0.8 with code overlap (included)
C19_Witness ==
    \E g \in 1..Len(FuzzyGroups) :
        LET seed == FuzzyGroups[g][1]
            others == OtherHospitalSameCategory(seed)
        IN  /\ \E o \in others :
                  /\ ExactlyEightTenths(DescSimilarity(seed, o))
                  /\ ~CodesOverlap(seed, o)
                  /\ o \notin Range(FuzzyGroups[g])
            /\ \E o \in others :
                  /\ AboveEightTenths(DescSimilarity(seed, o))
                  /\ ~CodesOverlap(seed, o)
                  /\ o \in Range(FuzzyGroups[g])
            /\ \E o \in others :
                  /\ ~AboveEightTenths(DescSimilarity(seed, o))
                  /\ CodesOverlap(seed, o)
                  /\ o \in Range(FuzzyGroups[g])

\* C20: every record belongs to at most one returned fuzzy group: a record
\* placed in a group is neither added to a later group nor the seed of one.
C20_RecordInOneGroup ==
    \A g, h \in 1..Len(FuzzyGroups) :
        g # h => Range(FuzzyGroups[g]) \cap Range(FuzzyGroups[h]) = {}

\* the (code type, normalized code value) keys of a code_information list,
\* those with an empty normalized value left out
TypedKeys(code_information) ==
    {<<c[2], ImprovedMatcher_normalize_code(c[1])>> :
        c \in {d \in Range(extract_all_codes(code_information)) :
                  ImprovedMatcher_normalize_code(d[1]) # <<>>}}

\* C21: the code overlap of two records is true exactly when they share a
\* normalized (code type, code value) key; equal values of different types do
\* not overlap, and values that normalize to nothing cause no overlap.
C21_OverlapIsSharedTypedKey ==
    ret.op = "code_overlap" =>
        (ret.result <=> TypedKeys(ret.args[1]) \cap TypedKeys(ret.args[2]) # {})

\* the lists of a list, one after the other
RECURSIVE Concat(_)
Concat(lists) == IF lists = <<>> THEN <<>> ELSE Head(lists) \o Concat(Tail(lists))

\* the descriptions of the members of a group of find_cross_hospital_matches,
\* hospital by hospital in the order the hospitals entered the group
MemberDescriptions(group) ==
    Concat([k \in 1..Len(group.hospitals) |->
               [j \in 1..Len(group.hospitals[k].items) |->
                   group.hospitals[k].items[j].item.description]])

\* the descriptions of the items HashMatcher loaded under a normalized code,
\* in load order
CodeDescriptions(code) ==
    Concat([k \in 1..Len(matcher.code_to_items) |->
               IF matcher.code_to_items[k].code = code
               THEN [j \in 1..Len(matcher.code_to_items[k].items) |->
                        matcher.code_to_items[k].items[j].description]
               ELSE <<>>])

\* the longest of a list of descriptions, the first of them on a tie
FirstLongest(descriptions) ==
    descriptions[CHOOSE i \in 1..Len(descriptions) :
                    /\ \A j \in 1..Len(descriptions) :
                          Len(descriptions[j]) <= Len(descriptions[i])
                    /\ \A j \in 1..(i - 1) : Len(descriptions[j]) < Len(descriptions[i])]

\* C24, for get_procedures: the description reported for a group of
\* find_cross_hospital_matches is the longest description of the group's
\* members, the first in hospital load order on a tie.
C24_ReportedDescriptionLongest ==
    (ret.op = "find_cross_hospital_matches" /\ ~ret.result.raised) =>
        \A k \in 1..Len(ret.result.groups) :
            RepresentativeDescription(ret.result.groups[k])
                = FirstLongest(MemberDescriptions(ret.result.groups[k]))

\* C24, for HashMatcher: the procedure description stored for a match is the
\* longest description of the items loaded under the match's code, the first
\* in load order on a tie.
C24_StoredDescriptionLongest ==
    ret.op = "find_code_matches" =>
        \A k \in 1..Len(ret.result) :
            ProcedureDescription(ret.result[k])
                = FirstLongest(CodeDescriptions(ret.result[k].code))

\* C24: the description reported for a group is the longest description among
\* the group's member records, ties going to the member met first in hospital
\* load order, in get_procedures and in HashMatcher.
C24_DescriptionIsLongest ==
    C24_ReportedDescriptionLongest /\ C24_StoredDescriptionLongest

\* every group a call of find_matches appended to a desc_groups list, in the
\* order of the appends, as positions in all_items, the seed first
FoundGroups == IF ret.op = "find_matches" THEN ret.result.found ELSE <<>>

\* the fraction is more than 0.9
AboveNineTenths(score) == 2 * score.matches * 10 > 9 * score.length

\* C22: a record whose normalized description is more than 0.9 similar to the
\* description of an earlier seed that produced a group is not a seed: of any
\* two groups find_matches found, in one category or in two, the later seed's
\* description is at most 0.9 similar to the earlier seed's.
C22_SeedsApart ==
    \A g, h \in 1..Len(FoundGroups) :
        g < h => ~AboveNineTenths(DescSimilarity(FoundGroups[h][1], FoundGroups[g][1]))

\* groups were found in two categories, and a record with a partner in another
\* hospital of its own category seeded no group because of a seed of another
\* category
C22_Witness ==
    /\ \E g, h \in 1..Len(FoundGroups) :
          matcher.all_items[FoundGroups[g][1]].category
              # matcher.all_items[FoundGroups[h][1]].category
    /\ \E g \in 1..Len(FoundGroups) : \E r \in 1..Len(matcher.all_items) :
          /\ matcher.all_items[r].category # matcher.all_items[FoundGroups[g][1]].category
          /\ AboveNineTenths(DescSimilarity(r, FoundGroups[g][1]))
          /\ \E o \in OtherHospitalSameCategory(r) :
                AboveEightTenths(DescSimilarity(r, o))
          /\ \A h \in 1..Len(FoundGroups) : FoundGroups[h][1] # r

\* C28: find_matches returns every multi-hospital group it found, whatever the
\* category: the returned list has total_procedures entries, and a group found
\* in one category is still in it after the later categories.
C28_ReturnsEveryGroup ==
    (ret.op = "find_matches" /\ ~ret.result.raised) =>
        /\ Len(ret.result.desc_groups) = ret.result.total_procedures
        /\ ret.result.desc_groups = ret.result.found

-----------------------------------------------------------------------------
(* Properties of the similarity tests *)

\* the score of two descriptions lies in [0, 1]
ScoreInRange(score) == 0 <= 2 * score.matches /\ 2 * score.matches <= score.length

\* C23: description similarity is symmetric: similarity_score(a, b) equals
\* similarity_score(b, a) and lies in [0, 1] for all strings, and
\* description_similarity(a, b) equals description_similarity(b, a) for all
\* normalized descriptions.
C23_SimilaritySymmetric ==
    /\ ret.op = "similarity_score" =>
          /\ ret.result = similarity_score(ret.args[2], ret.args[1])
          /\ ScoreInRange(ret.result)
    /\ ret.op = "description_similarity" =>
          ret.result = description_similarity(normalize_description(ret.args[2]),
                                              normalize_description(ret.args[1]))

\* C23 without the symmetry of similarity_score: the score lies in [0, 1] and
\* description_similarity is symmetric
C23_RangeAndWordSymmetry ==
    /\ ret.op = "similarity_score" => ScoreInRange(ret.result)
    /\ ret.op = "description_similarity" =>
          ret.result = description_similarity(normalize_description(ret.args[2]),
                                              normalize_description(ret.args[1]))

-----------------------------------------------------------------------------
(* Properties of FastMatcher.find_matches_fast *)

\* the records of the groups the code pass emitted
CodePassMatched(r) == UNION {Range(r.matches[g]) : g \in 1..r.exact_matches}

\* record k is in the code group of its c-th code
GroupedByCode(r, records, k, c) ==
    \E g \in 1..Len(r.code_groups) :
        /\ r.code_groups[g].code = records[k].codes[c][1] \o <<"|">> \o records[k].codes[c][2]
        /\ k \in Range(r.code_groups[g].items)

\* C27: in find_matches_fast every loaded record that is not in an emitted
\* code-pass group is a candidate of the description pass (also a record that
\* has codes), and a record is in the code group of every code it carries.
C27_UnmatchedAreCandidates ==
    ret.op = "find_matches_fast" =>
        LET records == FastRecords(matcher.hospital_data)
            r == ret.result
        IN  /\ \A k \in 1..Len(records) :
                   k \notin CodePassMatched(r) => k \in Range(r.no_code_items)
            /\ \A k \in 1..Len(records) : \A c \in 1..Len(records[k].codes) :
                   GroupedByCode(r, records, k, c)

\* what find_matches_fast does instead: the candidates of the description pass
\* are the records without codes, and a record is in the code group of its
\* first code only
C27_FirstCodeOnly ==
    ret.op = "find_matches_fast" =>
        LET records == FastRecords(matcher.hospital_data)
            r == ret.result
        IN  /\ Range(r.no_code_items) = {k \in 1..Len(records) : records[k].codes = <<>>}
            /\ \A k \in 1..Len(records) : \A c \in 1..Len(records[k].codes) :
                   GroupedByCode(r, records, k, c) <=> PrimaryCode(records[k])
                      = records[k].codes[c][1] \o <<"|">> \o records[k].codes[c][2]

\* records i and j have no codes, come from different hospitals and have the
\* same category and the same normalized description
IdenticalDescriptions(records, i, j) ==
    /\ records[i].codes = <<>> /\ records[j].codes = <<>>
    /\ records[i].hospital # records[j].hospital
    /\ records[i].category = records[j].category
    /\ records[i].normalized_desc = records[j].normalized_desc

\* records i and j are in one group of matches
MatchedTogether(r, i, j) ==
    \E g \in 1..Len(r.matches) : {i, j} \subseteq Range(r.matches[g])

\* C30: two code-less records from different hospitals with the same category
\* and identical normalized descriptions are in one emitted description group,
\* whatever the number of words of the description.
C30_IdenticalDescriptionsGrouped ==
    ret.op = "find_matches_fast" =>
        LET records == FastRecords(matcher.hospital_data)
        IN  \A i, j \in 1..Len(records) :
               IdenticalDescriptions(records, i, j) => MatchedTogether(ret.result, i, j)

\* C30 for the descriptions that are similar to themselves, that is those of at
\* least two words outside common_words
C30_SelfSimilarGrouped ==
    ret.op = "find_matches_fast" =>
        LET records == FastRecords(matcher.hospital_data)
        IN  \A i, j \in 1..Len(records) :
               (/\ IdenticalDescriptions(records, i, j)
                /\ description_similarity(records[i].normalized_desc,
                                          records[i].normalized_desc))
                  => MatchedTogether(ret.result, i, j)

-----------------------------------------------------------------------------
(* Properties of HospitalDataset *)

ReadOps ==
    {"find_by_code", "find_by_description", "search_by_keywords",
     "count_by_code_type", "get_all_codes_of_type", "get_stats"}

\* the lowercase word tokens of length >= 3 of a text
Tokens3(text) == {w \in Range(FindAllWords(Lower(text))) : Len(w) >= 3}

\* the records a keyword search over the positions `indices` returns
ItemsAt(ds, indices) == {ds.items[i + 1] : i \in indices}

\* C2: every added record is found by each of its codes, with and without the
\* type, and by each word token of length >= 3 of its description, in every
\* state reached by later add_item calls too.
C2_IndexConsistent ==
    \A h \in Loaded :
        LET ds == hospital_datasets[h]
        IN  \A i \in 1..Len(ds.items) :
                LET r == ds.items[i]
                IN  /\ \A k \in 1..Len(r.codes) :
                          /\ r \in Range(find_by_code(ds, r.codes[k].code, r.codes[k].type))
                          /\ r \in Range(find_by_code(ds, r.codes[k].code, None))
                    /\ \A token \in Tokens3(r.description) :
                          r \in ItemsAt(ds, search_by_keywords(ds, List(<<token>>)).indices)

\* a lookup by code alone returned the record added first, after a second
\* record was added
C2_Witness ==
    /\ ret.op = "find_by_code"
    /\ ret.args[2] = None
    /\ Len(hospital_datasets[ret.h].items) >= 2
    /\ hospital_datasets[ret.h].items[1] \in Range(ret.result)
    /\ Tokens3(hospital_datasets[ret.h].items[1].description) # {}

\* the positions an index dict holds under key k
ListPositions(d, k) == Range(d[k])

PositionsInRange(ds) ==
    /\ \A k \in DOMAIN ds.code_to_indices :
          ListPositions(ds.code_to_indices, k) \subseteq 0..(Len(ds.items) - 1)
    /\ \A k \in DOMAIN ds.description_to_indices :
          ListPositions(ds.description_to_indices, k) \subseteq 0..(Len(ds.items) - 1)
    /\ \A k \in DOMAIN ds.word_index : ds.word_index[k] \subseteq 0..(Len(ds.items) - 1)

\* C3: every stored position is in 0..len(items)-1; an add_item call leaves the
\* earlier records at their positions and every position it stores is the
\* position of the record it added.
C3_PositionsStable ==
    [][\A h \in Loaded :
          LET ds == hospital_datasets[h]
              ds2 == hospital_datasets'[h]
              n == Len(ds.items)
              New(d, d2, k) == IF k \in DOMAIN d THEN Range(d2[k]) \ Range(d[k])
                               ELSE Range(d2[k])
          IN  /\ PositionsInRange(ds2)
              /\ Len(ds2.items) >= n
              /\ SubSeq(ds2.items, 1, n) = ds.items
              /\ (ret'.op = "add_item" /\ ret'.h = h) =>
                    /\ Len(ds2.items) = n + 1
                    /\ ds2.items[n + 1] = ret'.args
                    /\ \A k \in DOMAIN ds2.code_to_indices :
                          New(ds.code_to_indices, ds2.code_to_indices, k) \subseteq {n}
                    /\ \A k \in DOMAIN ds2.description_to_indices :
                          New(ds.description_to_indices, ds2.description_to_indices, k)
                              \subseteq {n}
                    /\ \A k \in DOMAIN ds2.word_index :
                          (ds2.word_index[k] \ Get(ds.word_index, k, {})) \subseteq {n}
      ]_vars

\* a second record was added and some word posting holds both positions
C3_Witness ==
    /\ ret.op = "add_item"
    /\ Len(hospital_datasets[ret.h].items) = 2
    /\ \E k \in DOMAIN hospital_datasets[ret.h].word_index :
           hospital_datasets[ret.h].word_index[k] = {0, 1}
    /\ \E k \in DOMAIN hospital_datasets[ret.h].code_to_indices :
           hospital_datasets[ret.h].code_to_indices[k] = <<0, 1>>

\* the keywords of a call, lowercased and stripped
CleanKeywords(keywords) == {Strip(Lower(k)) : k \in Range(KeywordList(keywords))}

\* C4 as stated: a search with any keyword shorter than 3 characters returns
\* an empty result.
C4_ShortKeywordGivesEmpty ==
    (ret.op = "search_by_keywords" /\ \E k \in CleanKeywords(ret.args) : Len(k) < 3)
        => ret.result = <<>>

\* C4 as amended: keywords shorter than 3 characters are ignored; the result is
\* the records listed in word_index under every keyword of length >= 3, each
\* once, and is empty when no such keyword is given.
C4_ShortKeywordsIgnored ==
    ret.op = "search_by_keywords" =>
        LET ds == hospital_datasets[ret.h]
            long == {k \in CleanKeywords(ret.args) : Len(k) >= 3}
            hits == {i \in 0..(Len(ds.items) - 1) :
                       \A k \in long : i \in Get(ds.word_index, k, {})}
        IN  /\ Range(ret.result) = IF long = {} THEN {} ELSE ItemsAt(ds, hits)
            /\ Len(ret.result) = Cardinality(Range(ret.result))

\* 'ct scan' returned the records indexed under 'scan'
C4_Witness ==
    /\ ret.op = "search_by_keywords"
    /\ ret.args = Str(<<"c", "t", " ", "s", "c", "a", "n">>)
    /\ ret.result # <<>>

\* C5: a keyword string finds exactly the records whose indexed words hold
\* every word token (lowercased \w+ run of length >= 3) of the string.
C5_SameTokenizer ==
    (ret.op = "search_by_keywords" /\ ret.args.kind = "str"
        /\ Tokens3(ret.args.val) # {}) =>
        LET ds == hospital_datasets[ret.h]
            hits == {i \in 0..(Len(ds.items) - 1) :
                       \A w \in Tokens3(ret.args.val) : i \in Get(ds.word_index, w, {})}
        IN  Range(ret.result) = ItemsAt(ds, hits)

\* what a read returns on a miss
MissGivesEmpty ==
    LET ds == hospital_datasets[ret.h]
    IN  /\ (ret.op = "find_by_code" /\ ret.args[1] \notin DOMAIN ds.code_to_indices
              /\ CodeKey(ret.args[2], ret.args[1]) \notin DOMAIN ds.code_to_indices)
              => ret.result = <<>>
        /\ (ret.op = "find_by_description"
              /\ Lower(ret.args) \notin DOMAIN ds.description_to_indices)
              => ret.result = <<>>
        /\ (ret.op = "search_by_keywords"
              /\ \E k \in CleanKeywords(ret.args) :
                    Len(k) >= 3 /\ k \notin DOMAIN ds.word_index)
              => ret.result = <<>>
        /\ (ret.op = "count_by_code_type" /\ ret.args \notin DOMAIN ds.code_type_stats)
              => ret.result = 0
        /\ (ret.op = "get_all_codes_of_type"
              /\ \A k \in DOMAIN ds.code_to_indices : ~StartsWith(k, ret.args \o <<":">>))
              => ret.result = <<>>

\* C6: a read returns an empty list or 0 on a miss, and, hit or miss, leaves
\* the items and the four indexes of every dataset as they were.
C6_ReadsChangeNothing ==
    [][ret'.op \in ReadOps => (hospital_datasets' = hospital_datasets /\ MissGivesEmpty')]_vars

\* a two-keyword search whose first keyword has postings returned nothing
C6_Witness ==
    /\ ret.op = "search_by_keywords"
    /\ ret.args = Str(<<"s", "c", "a", "n", " ", "p", "e", "n">>)
    /\ Get(hospital_datasets[ret.h].word_index, <<"s", "c", "a", "n">>, {}) # {}
    /\ ret.result = <<>>

RECURSIVE EntriesOfType(_, _)
\* the number of code entries of type t in a list of items
EntriesOfType(items, t) ==
    IF items = <<>> THEN 0
    ELSE Cardinality({k \in 1..Len(Head(items).codes) : Head(items).codes[k].type = t})
         + EntriesOfType(Tail(items), t)

C8_CodesOfTypeExact ==
    ret.op = "get_all_codes_of_type" =>
        LET ds == hospital_datasets[ret.h]
        IN  /\ Range(ret.result) =
                  UNION {{ds.items[i].codes[k].code :
                            k \in {j \in 1..Len(ds.items[i].codes) :
                                     ds.items[i].codes[j].type = ret.args}} :
                         i \in 1..Len(ds.items)}
            /\ \A a, b \in 1..Len(ret.result) :
                  a < b => StrLess(ret.result[a], ret.result[b])

\* a record that no lookup should show: a blank description, or no price
\* entry with a positive amount
MalformedItem(item_data) ==
    \/ Strip(item_data.description) = <<>>
    \/ \A k \in 1..Len(item_data.prices) : item_data.prices[k].gross_charge <= 0

\* C9 as stated: add_item rejects a malformed record, leaving the items and
\* every index unchanged.
C9_AddRejectsMalformed ==
    [][(ret'.op = "add_item" /\ MalformedItem(ret'.args))
          => hospital_datasets' = hospital_datasets]_vars

\* a raw item with a blank description or without a gross_charge that parses
\* to a positive amount
MalformedRaw(item) ==
    \/ Strip(item.description) = <<>>
    \/ \A k \in 1..Len(item.standard_charges) :
          LET g == item.standard_charges[k]
              v == ParseFloat(RemoveChar(RemoveChar(g, "$"), ","))
          IN  g = None \/ ~v.ok \/ v.value <= 0

\* C9 as amended: build_hospital_dataset skips a malformed raw item before
\* add_item is called: the items and every index of the dataset are unchanged.
C9_BuildSkipsMalformed ==
    [][(ret'.op = "build_hospital_dataset" /\ MalformedRaw(ret'.args))
          => hospital_datasets' = hospital_datasets]_vars

\* a raw item without a positive price was read by a dataset that holds a record
C9_Witness ==
    /\ ret.op = "build_hospital_dataset"
    /\ Strip(ret.args.description) # <<>>
    /\ MalformedRaw(ret.args)
    /\ Len(hospital_datasets[ret.h].items) >= 1

\* the record build_hospital_dataset makes of a raw item on its own, if any
BuiltAlone(item, i) ==
    IF BuildRaises(item) THEN <<>>
    ELSE BuildStep(NewDataset(""), item, i).items

\* the record HashMatcher.load_hospital_data makes of a raw item on its own, if
\* any
LoadedAlone(item, hospital_name) ==
    IF LoadRaises(item) THEN <<>>
    ELSE LoadStep(NewMatcher, item, hospital_name).processed_items

\* C25: a failure on one raw item is absorbed for that item only: after
\* build_hospital_dataset and after HashMatcher.load_hospital_data on a file,
\* every well-formed item of the file, before or after a bad one, is in the
\* dataset, respectively in hospital_data.
C25_FailuresStayLocal ==
    /\ ret.op = "build_file" =>
          /\ ~ret.result.raised
          /\ hospital_datasets[ret.h].items
                = Concat([i \in 1..Len(ret.args) |-> BuiltAlone(ret.args[i], i - 1)])
    /\ ret.op = "load_file" =>
          /\ \E k \in 1..Len(matcher.hospital_data) :
                /\ matcher.hospital_data[k].hospital = ret.h
                /\ matcher.hospital_data[k].items
                      = Concat([i \in 1..Len(ret.args) |-> LoadedAlone(ret.args[i], ret.h)])

\* C25 for the files whose items all pass the loop body without an exception
C25_CleanFilesLoaded ==
    /\ (ret.op = "build_file" /\ \A i \in 1..Len(ret.args) : ~BuildRaises(ret.args[i])) =>
          /\ ~ret.result.raised
          /\ hospital_datasets[ret.h].items
                = Concat([i \in 1..Len(ret.args) |-> BuiltAlone(ret.args[i], i - 1)])
    /\ (ret.op = "load_file" /\ \A i \in 1..Len(ret.args) : ~LoadRaises(ret.args[i])) =>
          /\ \E k \in 1..Len(matcher.hospital_data) :
                /\ matcher.hospital_data[k].hospital = ret.h
                /\ matcher.hospital_data[k].items
                      = Concat([i \in 1..Len(ret.args) |-> LoadedAlone(ret.args[i], ret.h)])

\* C29: find_by_code, with or without a code type, returns every record at
\* most once, whatever codes the added records carry.
C29_FindByCodeOnce ==
    ret.op = "find_by_code" =>
        \A i, j \in 1..Len(ret.result) : i # j => ret.result[i] # ret.result[j]

=============================================================================
